---- MODULE Spec2Model ----
(***************************************************************************)
(* LilyPad: a TLS/UDP relay server (src/server) and its native client      *)
(* (src/client).  The module models the server's threads (acceptor,        *)
(* per-client read loops, screen relay, UDP voice relay), the auth         *)
(* database and the parts of the client that talk to them.                 *)
(*                                                                         *)
(* Every thread is a set of actions; a step is one critical section, one   *)
(* SQL statement or one send.  Each verified subsystem has its own         *)
(* specification (SpecVoice, SpecRate, ...) over the same variables and    *)
(* the same actions; a specification differs from the others only in the   *)
(* inputs its environment offers.                                          *)
(***************************************************************************)
EXTENDS Integers, Sequences, FiniteSets, TLC

(***************************************************************************)
(* Bounds of the model.                                                    *)
(***************************************************************************)
MaxConns == 3        \* TCP connections ever accepted (= client ids ever assigned)
MaxAddrs == 2        \* distinct UDP source addresses
VoiceConns == 2      \* connections accepted in SpecVoice
MaxIps == 2          \* distinct peer addresses of TCP connections
TickSecs == 30       \* seconds between two readings of the clock
MaxTime == 120       \* the clock stops here

(***************************************************************************)
(* Program constants.                                                      *)
(***************************************************************************)
RATE_LIMIT_MAX_FAILURES == 5
RATE_LIMIT_WINDOW_SECS == 60
VOICE_HEADER_SIZE == 8
MAX_VOICE_PACKET == 1400
SESSION_EXPIRY_DAYS == 30
RELAY_QUEUE_DEPTH == 60                     \* "while (g_relay_queue.size() > 60)"

Conns == 1..MaxConns
Addrs == 1..MaxAddrs
NoAddr == 0                                 \* sockaddr_in{} : all zero
ZeroToken == 0                              \* std::vector<uint8_t>(32, 0)
Ips == 1..MaxIps

UserNames == {"alice", "bob"}
Passwords == {"passw0rd", "hunter2hunter2", "short"}

VARIABLES
    \* ---- session registry (server/main.cpp:36-55)
    g_clients,        \* id -> ClientInfo, domain = the ids present
    g_next_id,
    g_update,         \* TRUE iff update.txt gave a version and a url
    g_running,        \* cleared by signal_handler (server/main.cpp:30-34)
    \* ---- connections
    conn_state,       \* conn -> "none" | "pending" | "auth_loop" | "client" | "closed"
    wire,             \* conn -> messages the server wrote to it, not yet read by the peer
    tap,              \* the connections whose stream is recorded in wire
    \* ---- auth database (server/auth_db.cpp)
    users,            \* name -> [id, password_hash], domain = the registered names
    sessions,         \* set of rows [id, user_id, token_hash, expires_at]
    next_session_id,  \* AUTOINCREMENT of sessions.id
    rng,              \* number of 32-byte values randombytes_buf has produced
    \* ---- rate limiting (server/main.cpp:63-98)
    g_rate_limits,    \* ip -> [failures, window_start]
    now,              \* the clock, in seconds
    \* ---- acceptor thread (server/main.cpp:299-522)
    acc,
    \* ---- per-client read threads (server/main.cpp:600-844)
    rd,               \* id -> [pc, locals], domain = the ids whose thread runs
    \* ---- UDP voice relay thread (server/main.cpp:847-894)
    udp_rx,           \* the datagram read last
    udp_tx,           \* the sendto calls made for it, in order
    \* ---- chat history (server/main.cpp:100-109)
    g_chat_history,   \* sequence of ChatEntry
    g_next_seq,
    chat_file,        \* the lines of chat_history.jsonl
    \* ---- screen relay (server/main.cpp:160-190, 532-597)
    g_relay_queue,    \* sequence of RelayItem
    relay,            \* the relay thread: [pc, batch, newest]
    produced,         \* history: sharer id -> keyframe flags of the SCREEN_FRAMEs read from it
    sub_at,           \* history: <<subscriber, sharer>> -> Len(produced[sharer]) at SCREEN_SUBSCRIBE
    \* ---- client (client/connection.cpp, client/network_threads.cpp)
    cl,               \* conn -> the client's state: [pc, auth_state, last_known_seq, ...];
                      \* mixed is what the last playback cycle took from each peer and
                      \* voice_rx counts the voice packets received (history)
    c2s,              \* conn -> messages the client wrote, not yet read by the server
    \* ---- history variables: they record what happened, no action reads them
    fail_log,         \* ip -> times of the failed credential checks of the last window
    last_auth,        \* the last auth request answered and the response to it
    tok,              \* raw token -> [user_id, root, sent, accepted]
    pw_changed        \* user id -> the password of its last completed change, "" if none

regVars  == <<g_clients, g_next_id, g_update, g_running>>
netVars  == <<conn_state, wire, tap>>
dbVars   == <<users, sessions, next_session_id, rng>>
rateVars == <<g_rate_limits, now>>
udpVars  == <<udp_rx, udp_tx>>
chatVars == <<g_chat_history, g_next_seq, chat_file>>
relayVars == <<g_relay_queue, relay, produced, sub_at>>
clVars == <<cl, c2s>>
histVars == <<fail_log, last_auth, tok, pw_changed>>

vars == <<regVars, netVars, dbVars, rateVars, acc, rd, udpVars, chatVars, relayVars, clVars,
          histVars>>

(***************************************************************************)
(* Helpers.                                                                *)
(***************************************************************************)
Present == DOMAIN g_clients

Min(S) == CHOOSE x \in S : \A y \in S : x <= y

RECURSIVE SetToSeq(_)
SetToSeq(S) == IF S = {} THEN <<>> ELSE <<Min(S)>> \o SetToSeq(S \ {Min(S)})

RECURSIVE SeqMap(_, _)
SeqMap(Op(_), s) == IF s = <<>> THEN <<>> ELSE <<Op(Head(s))>> \o SeqMap(Op, Tail(s))

SelectIds(P(_)) == SetToSeq({id \in Present : P(id)})

(***************************************************************************)
(* Wire messages (common/protocol.h).  One record shape for all types.     *)
(***************************************************************************)
Msg(type) == [type |-> type, status |-> "", id |-> 0, token |-> ZeroToken,
              seq |-> 0, key |-> FALSE]

make_update_available_msg == Msg("UPDATE_AVAILABLE")
make_user_joined_msg(id) == [Msg("USER_JOINED") EXCEPT !.id = id]
make_user_left_msg(id) == [Msg("USER_LEFT") EXCEPT !.id = id]
make_screen_start_broadcast(id) == [Msg("SCREEN_START") EXCEPT !.id = id]
make_screen_stop_broadcast(id) == [Msg("SCREEN_STOP") EXCEPT !.id = id]
make_voice_joined_broadcast(id) == [Msg("VOICE_JOINED") EXCEPT !.id = id]
make_voice_left_broadcast(id) == [Msg("VOICE_LEFT") EXCEPT !.id = id]
make_auth_login_resp(status, client_id, token) ==
    [Msg("AUTH_LOGIN_RESP") EXCEPT !.status = status, !.id = client_id, !.token = token]
make_auth_token_login_resp(status, client_id, token) ==
    [Msg("AUTH_TOKEN_LOGIN_RESP") EXCEPT !.status = status, !.id = client_id, !.token = token]

make_text_chat_broadcast_v2(seq, client_id) ==
    [Msg("TEXT_CHAT") EXCEPT !.seq = seq, !.id = client_id]

\* The frame and audio payloads are stood for by n, the position of the
\* message in what the sharer sent.
make_screen_frame_relay(id, n, is_keyframe) ==
    [Msg("SCREEN_FRAME") EXCEPT !.id = id, !.seq = n, !.key = is_keyframe]
make_screen_audio_relay(id, n) == [Msg("SCREEN_AUDIO") EXCEPT !.id = id, !.seq = n]
make_screen_request_keyframe_msg == Msg("SCREEN_REQUEST_KEYFRAME")
make_auth_delete_acct_resp(status) == [Msg("AUTH_DELETE_ACCT_RESP") EXCEPT !.status = status]

\* Client to server.
\* size tells how payload_len stands to what the type needs: "ok", "short"
\* (less than the handler reads) or "oversize" (far more than any sender
\* of this type makes).
Req(type) == [type |-> type, username |-> "", password |-> "", token |-> ZeroToken, seq |-> 0,
              key |-> FALSE, size |-> "ok", id |-> 0]
make_auth_login_req(username, password) ==
    [Req("AUTH_LOGIN_REQ") EXCEPT !.username = username, !.password = password]
make_auth_token_login_req(username, token) ==
    [Req("AUTH_TOKEN_LOGIN_REQ") EXCEPT !.username = username, !.token = token]
make_chat_sync_msg(last_seq) == [Req("CHAT_SYNC") EXCEPT !.seq = last_seq]
make_leave_msg == Req("LEAVE")
make_voice_join_msg == Req("VOICE_JOIN")
make_voice_leave_msg == Req("VOICE_LEAVE")
make_screen_start_msg == Req("SCREEN_START")
\* flags: bit 0 (SCREEN_FLAG_KEYFRAME) is the field key.
make_screen_frame_msg(is_keyframe) == [Req("SCREEN_FRAME") EXCEPT !.key = is_keyframe]
make_screen_audio_msg == Req("SCREEN_AUDIO")
make_screen_stop_msg == Req("SCREEN_STOP")

make_auth_change_pass_resp(status) == [Msg("AUTH_CHANGE_PASS_RESP") EXCEPT !.status = status]

\* TlsSocket::send_all on connection c, once per message of msgs, in order.
SendSeq(w, c, msgs) == IF c \in tap THEN [w EXCEPT ![c] = @ \o msgs] ELSE w
Send(w, c, m) == SendSeq(w, c, <<m>>)

\* The connections of the clients in ids.
SocketsOf(ids) == {g_clients[id].tls_socket : id \in ids}

\* send_all(msg) on the socket of every client in ids.
SendToIds(w, ids, m) ==
    [c \in Conns |-> IF c \in SocketsOf(ids) /\ c \in tap THEN Append(w[c], m) ELSE w[c]]

\* broadcast_tcp: caller holds g_clients_mutex.
broadcast_tcp(w, m) == SendToIds(w, Present, m)

(***************************************************************************)
(* Session registry.                                                       *)
(***************************************************************************)
NoKeyframe == <<>>

ClientInfo(id, username, tls, db_user_id) ==
    [id |-> id, username |-> username, tls_socket |-> tls,
     udp_addr |-> NoAddr, udp_known |-> FALSE, db_user_id |-> db_user_id,
     in_voice |-> FALSE, screen_sharing |-> FALSE, screen_subscribers |-> {},
     cached_keyframe |-> NoKeyframe]

IsSharing(id) == g_clients[id].screen_sharing
IsInVoice(id) == g_clients[id].in_voice
Anyone(id) == TRUE

\* What setup_authenticated_client writes to the new connection before it
\* inserts the client: update notice, user list, sharers, voice members.
SetupGreeting ==
    (IF g_update THEN <<make_update_available_msg>> ELSE <<>>)
    \o SeqMap(make_user_joined_msg, SelectIds(Anyone))
    \o SeqMap(make_screen_start_broadcast, SelectIds(IsSharing))
    \o SeqMap(make_voice_joined_broadcast, SelectIds(IsInVoice))

\* Mutant: the client is inserted before its USER_JOINED is broadcast.
setup_authenticated_client_late(tls, username, db_user_id) ==
    LET client_id == g_next_id
        greeted == SendSeq(wire, tls, SetupGreeting)
    IN  /\ g_next_id' = g_next_id + 1
        /\ wire' = SendToIds(SendSeq(greeted, tls, <<make_user_joined_msg(client_id)>>),
                             Present, make_user_joined_msg(client_id))
        /\ g_clients' = g_clients @@
                (client_id :> ClientInfo(client_id, username, tls, db_user_id))
        /\ UNCHANGED <<g_update, g_running>>

\* setup_authenticated_client: one critical section of g_clients_mutex.
setup_authenticated_client(tls, username, db_user_id) ==
    LET client_id == g_next_id
        greeted == SendSeq(wire, tls, SetupGreeting)
    IN  /\ g_next_id' = g_next_id + 1
        /\ wire' = broadcast_tcp(greeted, make_user_joined_msg(client_id))
        /\ g_clients' = g_clients @@
                (client_id :> ClientInfo(client_id, username, tls, db_user_id))
        /\ UNCHANGED <<g_update, g_running>>

\* Mutant: the removed client stays in the subscriber sets.
remove_client_stale(client_id) ==
    IF client_id \notin Present
    THEN UNCHANGED <<regVars, netVars>>
    ELSE /\ g_clients' = [id \in Present \ {client_id} |-> g_clients[id]]
         /\ wire' = SendToIds(wire, Present \ {client_id}, make_user_left_msg(client_id))
         /\ conn_state' = [conn_state EXCEPT ![g_clients[client_id].tls_socket] = "closed"]
         /\ UNCHANGED <<g_next_id, g_update, g_running, tap>>

\* Mutant: no VOICE_LEFT for a client that was in voice.
remove_client_novoice(client_id) ==
    IF client_id \notin Present
    THEN UNCHANGED <<regVars, netVars>>
    ELSE LET others == Present \ {client_id}
             w2 == IF g_clients[client_id].screen_sharing
                   THEN SendToIds(wire, others, make_screen_stop_broadcast(client_id))
                   ELSE wire
         IN  /\ g_clients' = [id \in others |->
                    [g_clients[id] EXCEPT !.screen_subscribers = @ \ {client_id}]]
             /\ wire' = SendToIds(w2, others, make_user_left_msg(client_id))
             /\ conn_state' = [conn_state EXCEPT ![g_clients[client_id].tls_socket] = "closed"]
             /\ UNCHANGED <<g_next_id, g_update, g_running, tap>>

\* remove_client: one critical section of g_clients_mutex.
remove_client(client_id) ==
    IF client_id \notin Present
    THEN UNCHANGED <<regVars, netVars>>
    ELSE LET others == Present \ {client_id}
             w1 == IF g_clients[client_id].in_voice
                   THEN SendToIds(wire, others, make_voice_left_broadcast(client_id))
                   ELSE wire
             w2 == IF g_clients[client_id].screen_sharing
                   THEN SendToIds(w1, others, make_screen_stop_broadcast(client_id))
                   ELSE w1
         IN  /\ g_clients' = [id \in others |->
                    [g_clients[id] EXCEPT !.screen_subscribers = @ \ {client_id}]]
             /\ wire' = SendToIds(w2, others, make_user_left_msg(client_id))
             /\ conn_state' = [conn_state EXCEPT ![g_clients[client_id].tls_socket] = "closed"]
             /\ UNCHANGED <<g_next_id, g_update, g_running, tap>>

(***************************************************************************)
(* Auth database (server/auth_db.cpp).  Argon2id and SHA-256 are black     *)
(* boxes: a hash is the tagged input, so equal hashes mean equal inputs.   *)
(***************************************************************************)
crypto_pwhash_str(password) == <<"argon2id", password>>
crypto_pwhash_str_verify(stored_hash, password) == stored_hash = crypto_pwhash_str(password)
hash_token(raw_token) == <<"sha256", raw_token>>
is_valid_password(p) == Len(p) >= 8 /\ Len(p) <= 128

UserIds == {users[n].id : n \in DOMAIN users}

\* AuthDB::verify_login: SELECT id, password_hash FROM users WHERE username = ?
verify_login(username, password) ==
    IF username \in DOMAIN users
       /\ crypto_pwhash_str_verify(users[username].password_hash, password)
    THEN [success |-> TRUE, user_id |-> users[username].id]
    ELSE [success |-> FALSE, user_id |-> 0]

\* The INSERT of AuthDB::create_session.  token_hash is UNIQUE and user_id is a
\* foreign key; the result of sqlite3_step is ignored.
InsertSession(user_id, raw_token) ==
    IF user_id \in UserIds /\ \A s \in sessions : s.token_hash # hash_token(raw_token)
    THEN sessions \cup {[id |-> next_session_id, user_id |-> user_id,
                         token_hash |-> hash_token(raw_token),
                         expires_at |-> now + SESSION_EXPIRY_DAYS * 24 * 3600]}
    ELSE sessions

\* The SELECT of AuthDB::validate_token: the rows that match.
validate_token_select(username, raw_token) ==
    {s \in sessions : /\ s.token_hash = hash_token(raw_token)
                      /\ username \in DOMAIN users
                      /\ users[username].id = s.user_id
                      /\ s.expires_at > now}

\* Mutant: the row of the presented token stays.
validate_token_keep(session_id) == sessions

\* The DELETE of AuthDB::validate_token ("Delete old token (rolling)").
validate_token_delete(session_id) == {s \in sessions : s.id # session_id}

\* AuthDB::get_password_hash: SELECT password_hash FROM users WHERE id = ?
NoHash == <<>>

get_password_hash(user_id) ==
    IF \E n \in DOMAIN users : users[n].id = user_id
    THEN users[CHOOSE n \in DOMAIN users : users[n].id = user_id].password_hash
    ELSE NoHash

\* UPDATE users SET password_hash = ? WHERE id = ?
update_password_hash(user_id, new_hash) ==
    [n \in DOMAIN users |-> IF users[n].id = user_id
                            THEN [users[n] EXCEPT !.password_hash = new_hash]
                            ELSE users[n]]

\* AuthDB::invalidate_all_sessions
invalidate_all_sessions(user_id) == {s \in sessions : s.user_id # user_id}

(***************************************************************************)
(* Rate limiting (server/main.cpp:63-98).                                  *)
(***************************************************************************)
PeerIp(c) == ((c - 1) % MaxIps) + 1

\* The window roll both functions start with.
RollWindow(entry) ==
    IF now - entry.window_start >= RATE_LIMIT_WINDOW_SECS
    THEN [failures |-> 0, window_start |-> now]
    ELSE entry

\* Mutant: the failure count is not consulted.
check_rate_limit_open(ip) ==
    [limits |-> [g_rate_limits EXCEPT ![ip] = RollWindow(g_rate_limits[ip])],
     allowed |-> TRUE]

check_rate_limit(ip) ==
    LET entry == RollWindow(g_rate_limits[ip])
    IN  [limits |-> [g_rate_limits EXCEPT ![ip] = entry],
         allowed |-> entry.failures < RATE_LIMIT_MAX_FAILURES]

record_auth_failure(ip) ==
    LET entry == RollWindow(g_rate_limits[ip])
    IN  [g_rate_limits EXCEPT ![ip] = [entry EXCEPT !.failures = @ + 1]]

\* std::chrono::steady_clock advances.  The log of failures keeps the ones
\* less than RATE_LIMIT_WINDOW_SECS old.
Recent(log, t) == SelectSeq(log, LAMBDA f : t - f < RATE_LIMIT_WINDOW_SECS)

Tick ==
    /\ now + TickSecs <= MaxTime
    /\ now' = now + TickSecs
    /\ fail_log' = [ip \in Ips |-> Recent(fail_log[ip], now + TickSecs)]
    /\ UNCHANGED <<regVars, netVars, dbVars, g_rate_limits, acc, rd, udpVars, chatVars,
                   relayVars, clVars, last_auth, tok, pw_changed>>

(***************************************************************************)
(* Acceptor thread: tcp_accept_loop (server/main.cpp:299-522).  One        *)
(* connection at a time: accept, TLS handshake, then the auth loop until   *)
(* the peer is authenticated or the connection is lost.                    *)
(***************************************************************************)
RdIdle == [pc |-> "idle", seq |-> 0, i |-> 0, db_user_id |-> 0, old_pass |-> "",
           new_pass |-> "", success |-> FALSE, relay |-> <<>>]

AccIdle == [pc |-> "accept", conn |-> 0, kind |-> "", username |-> "", password |-> "",
            raw_token |-> ZeroToken, user_id |-> 0, session_id |-> 0,
            token |-> ZeroToken, client_id |-> 0]

\* History: the request answered last and the status and token of the answer.
NoAuth == [conn |-> 0, kind |-> "", username |-> "", password |-> "",
           raw_token |-> ZeroToken, status |-> "", token |-> ZeroToken]

Exchange(conn, kind, username, password, raw_token, resp) ==
    [conn |-> conn, kind |-> kind, username |-> username, password |-> password,
     raw_token |-> raw_token, status |-> resp.status, token |-> resp.token]

\* History: one more response carries the token of resp, if it is a minted one.
NoteSent(t, resp) ==
    IF resp.token \in DOMAIN t THEN [t EXCEPT ![resp.token].sent = @ + 1] ELSE t

\* Mutant: a failure response carries the token minted last.
AuthFailResp_leak(kind, status) == make_auth_login_resp(status, 0, rng)

\* The failure responses of the auth loop: the token field is 32 zero bytes.
AuthFailResp(kind, status) ==
    IF kind = "login" THEN make_auth_login_resp(status, 0, ZeroToken)
                      ELSE make_auth_token_login_resp(status, 0, ZeroToken)

\* accept() and the TLS handshake.  Connections are numbered in the order
\* accept() returns them.
tcp_accept(c) ==
    /\ acc.pc = "accept"
    /\ conn_state[c] = "none"
    /\ \A b \in 1..(c - 1) : conn_state[b] # "none"
    /\ acc' = [AccIdle EXCEPT !.pc = "auth_loop", !.conn = c]
    /\ conn_state' = [conn_state EXCEPT ![c] = "auth_loop"]
    /\ UNCHANGED <<regVars, wire, tap, dbVars, rateVars, rd, udpVars, chatVars, relayVars, clVars,
                   histVars>>

\* recv_all fails in the auth loop: connection lost, back to accept().
auth_loop_connection_lost ==
    /\ acc.pc = "auth_loop"
    /\ acc' = AccIdle
    /\ conn_state' = [conn_state EXCEPT ![acc.conn] = "closed"]
    /\ UNCHANGED <<regVars, wire, tap, dbVars, rateVars, rd, udpVars, chatVars, relayVars, clVars,
                   histVars>>

\* The acceptor answers the request it holds with a failure status.
AuthRefuse(kind, username, password, raw_token, status) ==
    LET resp == AuthFailResp(kind, status)
    IN  /\ wire' = Send(wire, acc.conn, resp)
        /\ last_auth' = Exchange(acc.conn, kind, username, password, raw_token, resp)
        /\ tok' = NoteSent(tok, resp)

\* AUTH_LOGIN_REQ / AUTH_TOKEN_LOGIN_REQ: rate limit check and parse.
\* wellformed is FALSE for a payload without the second field.
AuthRequest(kind, username, password, raw_token, wellformed) ==
    LET r == check_rate_limit(PeerIp(acc.conn))
    IN  /\ acc.pc = "auth_loop"
        /\ g_rate_limits' = r.limits
        /\ IF ~r.allowed
           THEN /\ AuthRefuse(kind, username, password, raw_token, "ERR_RATE_LIMITED")
                /\ UNCHANGED acc
           ELSE IF ~wellformed
           THEN /\ AuthRefuse(kind, username, password, raw_token, "ERR_INVALID_INPUT")
                /\ UNCHANGED acc
           ELSE /\ acc' = [acc EXCEPT !.pc = IF kind = "login" THEN "login_verify"
                                                              ELSE "token_verify",
                                      !.kind = kind, !.username = username,
                                      !.password = password, !.raw_token = raw_token]
                /\ UNCHANGED <<wire, last_auth, tok>>
        /\ UNCHANGED <<regVars, conn_state, tap, dbVars, now, rd, udpVars, chatVars, relayVars,
                       cl, fail_log, pw_changed>>

auth_login_req(username, password, wellformed) ==
    AuthRequest("login", username, password, ZeroToken, wellformed)

auth_token_login_req(username, raw_token, wellformed) ==
    AuthRequest("token", username, "", raw_token, wellformed)

\* The credential check failed: count it and answer.
AuthRejected(status) ==
    /\ g_rate_limits' = record_auth_failure(PeerIp(acc.conn))
    /\ fail_log' = [fail_log EXCEPT ![PeerIp(acc.conn)] = Append(@, now)]
    /\ AuthRefuse(acc.kind, acc.username, acc.password, acc.raw_token, status)
    /\ acc' = [AccIdle EXCEPT !.pc = "auth_loop", !.conn = acc.conn]

\* g_auth_db->verify_login and the failure path (main.cpp:422-430).
auth_login_verify ==
    LET result == verify_login(acc.username, acc.password)
    IN  /\ acc.pc = "login_verify"
        /\ IF ~result.success
           THEN AuthRejected("ERR_INVALID_CREDS")
           ELSE /\ acc' = [acc EXCEPT !.pc = "create_session", !.user_id = result.user_id]
                /\ UNCHANGED <<g_rate_limits, wire, fail_log, last_auth, tok>>
        /\ UNCHANGED <<regVars, conn_state, tap, dbVars, now, rd, udpVars, chatVars, relayVars,
                       clVars, pw_changed>>

\* The SELECT of validate_token and the failure path (main.cpp:478-486).
auth_token_select ==
    LET rows == validate_token_select(acc.username, acc.raw_token)
    IN  /\ acc.pc = "token_verify"
        /\ IF rows = {}
           THEN AuthRejected("ERR_TOKEN_EXPIRED")
           ELSE /\ \E s \in rows :
                     acc' = [acc EXCEPT !.pc = "token_delete", !.user_id = s.user_id,
                                        !.session_id = s.id]
                /\ tok' = [tok EXCEPT ![acc.raw_token].accepted = @ + 1]
                /\ UNCHANGED <<g_rate_limits, wire, fail_log, last_auth>>
        /\ UNCHANGED <<regVars, conn_state, tap, dbVars, now, rd, udpVars, chatVars, relayVars,
                       clVars, pw_changed>>

\* The DELETE of validate_token.
auth_token_delete ==
    /\ acc.pc = "token_delete"
    /\ sessions' = validate_token_delete(acc.session_id)
    /\ acc' = [acc EXCEPT !.pc = "create_session"]
    /\ UNCHANGED <<regVars, netVars, users, next_session_id, rng, rateVars, rd, udpVars,
                   chatVars, relayVars, clVars, histVars>>

\* History: the password a session goes back to, through token logins.
RootOf(kind, password, raw_token) ==
    IF kind = "login" THEN password
    ELSE IF raw_token \in DOMAIN tok THEN tok[raw_token].root ELSE ""

\* AuthDB::create_session: a fresh random token, its hash inserted.
create_session ==
    LET raw_token == rng + 1
    IN  /\ acc.pc = "create_session"
        /\ rng' = rng + 1
        /\ sessions' = InsertSession(acc.user_id, raw_token)
        /\ next_session_id' = next_session_id + 1
        /\ acc' = [acc EXCEPT !.pc = "setup", !.token = raw_token]
        /\ tok' = tok @@ (raw_token :>
                     [user_id |-> acc.user_id,
                      root |-> RootOf(acc.kind, acc.password, acc.raw_token),
                      sent |-> 0, accepted |-> 0])
        /\ UNCHANGED <<regVars, netVars, users, rateVars, rd, udpVars, chatVars, relayVars,
                       clVars, fail_log, last_auth, pw_changed>>

\* setup_authenticated_client called by the acceptor (main.cpp:436, 489).
auth_setup ==
    /\ acc.pc = "setup"
    /\ setup_authenticated_client(acc.conn, acc.username, acc.user_id)
    /\ acc' = [acc EXCEPT !.pc = "send_resp", !.client_id = g_next_id]
    /\ UNCHANGED <<conn_state, tap, dbVars, rateVars, rd, udpVars, chatVars, relayVars, clVars,
                   histVars>>

\* The login response that carries the token (main.cpp:440-452, 493-505);
\* the read thread of the client is spawned (main.cpp:516-520).
LoginOkResp(kind, client_id, token) ==
    IF kind = "login" THEN make_auth_login_resp("OK", client_id, token)
                      ELSE make_auth_token_login_resp("OK", client_id, token)

auth_send_resp ==
    LET resp == LoginOkResp(acc.kind, acc.client_id, acc.token)
    IN  /\ acc.pc = "send_resp"
        /\ IF acc.client_id \in Present
           THEN /\ wire' = Send(wire, acc.conn, resp)
                /\ last_auth' = Exchange(acc.conn, acc.kind, acc.username, acc.password,
                                         acc.raw_token, resp)
                /\ tok' = NoteSent(tok, resp)
           ELSE UNCHANGED <<wire, last_auth, tok>>
        /\ conn_state' = [conn_state EXCEPT ![acc.conn] = "client"]
        /\ acc' = AccIdle
        /\ rd' = rd @@ (acc.client_id :> RdIdle)
        /\ UNCHANGED <<regVars, tap, dbVars, rateVars, udpVars, chatVars, relayVars, clVars,
                       fail_log, pw_changed>>

(***************************************************************************)
(* Per-client read thread: client_read_loop(id) (server/main.cpp:600-844). *)
(* A handler runs when the thread exists and is between two messages.      *)
(***************************************************************************)
Reading(id) == id \in DOMAIN rd /\ rd[id].pc = "idle"

ThreadExit(id) == [i \in DOMAIN rd \ {id} |-> rd[i]]

\* LEAVE, or recv_all failed: remove_client(id) and return.
client_read_loop_LEAVE(id) ==
    /\ Reading(id)
    /\ remove_client(id)
    /\ rd' = ThreadExit(id)
    /\ UNCHANGED <<dbVars, rateVars, acc, udpVars, chatVars, relayVars, cl, histVars>>

client_read_loop_VOICE_JOIN(id) ==
    /\ Reading(id)
    /\ IF id \in Present
       THEN /\ g_clients' = [g_clients EXCEPT ![id].in_voice = TRUE]
            /\ wire' = broadcast_tcp(wire, make_voice_joined_broadcast(id))
       ELSE UNCHANGED <<g_clients, wire>>
    /\ UNCHANGED <<g_next_id, g_update, g_running, conn_state, tap, dbVars, rateVars, acc, rd, udpVars, chatVars, relayVars, cl, histVars>>

client_read_loop_VOICE_LEAVE(id) ==
    /\ Reading(id)
    /\ IF id \in Present
       THEN /\ g_clients' = [g_clients EXCEPT ![id].in_voice = FALSE]
            /\ wire' = broadcast_tcp(wire, make_voice_left_broadcast(id))
       ELSE UNCHANGED <<g_clients, wire>>
    /\ UNCHANGED <<g_next_id, g_update, g_running, conn_state, tap, dbVars, rateVars, acc, rd, udpVars, chatVars, relayVars, cl, histVars>>

\* The read thread of id sends m to its own client, if still registered
\* (lock g_clients_mutex, find id, send_all).
SendToSelf(w, id, m) ==
    IF id \in Present THEN Send(w, g_clients[id].tls_socket, m) ELSE w

db_user_id_of(id) == IF id \in Present THEN g_clients[id].db_user_id ELSE 0

\* AUTH_CHANGE_PASS_REQ: parse, look db_user_id up, validate the new password.
client_read_loop_AUTH_CHANGE_PASS_REQ(id, old_pass, new_pass) ==
    /\ Reading(id)
    /\ IF ~is_valid_password(new_pass)
       THEN /\ wire' = SendToSelf(wire, id, make_auth_change_pass_resp("ERR_INVALID_INPUT"))
            /\ UNCHANGED rd
       ELSE /\ rd' = [rd EXCEPT ![id] = [RdIdle EXCEPT !.pc = "cp_verify",
                                                       !.db_user_id = db_user_id_of(id),
                                                       !.old_pass = old_pass,
                                                       !.new_pass = new_pass]]
            /\ UNCHANGED wire
    /\ UNCHANGED <<regVars, conn_state, tap, dbVars, rateVars, acc, udpVars, chatVars,
                   relayVars, cl, histVars>>

\* AuthDB::change_password, "Verify old password" (auth_db.cpp:198-205).
change_password_verify(id) ==
    LET stored_hash == get_password_hash(rd[id].db_user_id)
        ok == stored_hash # NoHash /\ crypto_pwhash_str_verify(stored_hash, rd[id].old_pass)
    IN  /\ id \in DOMAIN rd
        /\ rd[id].pc = "cp_verify"
        /\ rd' = [rd EXCEPT ![id].pc = IF ok THEN "cp_update" ELSE "cp_resp",
                            ![id].success = FALSE]
        /\ UNCHANGED <<regVars, netVars, dbVars, rateVars, acc, udpVars, chatVars, relayVars,
                       clVars, histVars>>

\* AuthDB::change_password, "Update" (auth_db.cpp:215-221).
change_password_update(id) ==
    /\ id \in DOMAIN rd
    /\ rd[id].pc = "cp_update"
    /\ users' = update_password_hash(rd[id].db_user_id, crypto_pwhash_str(rd[id].new_pass))
    /\ rd' = [rd EXCEPT ![id].pc = "cp_invalidate"]
    /\ UNCHANGED <<regVars, netVars, sessions, next_session_id, rng, rateVars, acc, udpVars,
                   chatVars, relayVars, clVars, histVars>>

\* AuthDB::change_password, "Invalidate all sessions" (auth_db.cpp:223-227).
change_password_invalidate(id) ==
    /\ id \in DOMAIN rd
    /\ rd[id].pc = "cp_invalidate"
    /\ sessions' = invalidate_all_sessions(rd[id].db_user_id)
    /\ rd' = [rd EXCEPT ![id].pc = "cp_resp", ![id].success = TRUE]
    /\ UNCHANGED <<regVars, netVars, users, next_session_id, rng, rateVars, acc, udpVars,
                   chatVars, relayVars, clVars, histVars>>

\* The AUTH_CHANGE_PASS_RESP for the result of change_password (main.cpp:797-803).
client_read_loop_change_pass_resp(id) ==
    LET status == IF rd[id].success THEN "OK" ELSE "ERR_INVALID_CREDS"
    IN  /\ id \in DOMAIN rd
        /\ rd[id].pc = "cp_resp"
        /\ wire' = SendToSelf(wire, id, make_auth_change_pass_resp(status))
        /\ rd' = [rd EXCEPT ![id] = RdIdle]
        /\ pw_changed' = IF rd[id].success /\ rd[id].db_user_id \in DOMAIN pw_changed
                         THEN [pw_changed EXCEPT ![rd[id].db_user_id] = rd[id].new_pass]
                         ELSE pw_changed
        /\ UNCHANGED <<regVars, conn_state, tap, dbVars, rateVars, acc, udpVars, chatVars,
                       relayVars, clVars, fail_log, last_auth, tok>>

\* AUTH_LOGOUT: invalidate the sessions of the user (main.cpp:829-839).
client_read_loop_AUTH_LOGOUT(id) ==
    /\ Reading(id)
    /\ sessions' = IF db_user_id_of(id) > 0 THEN invalidate_all_sessions(db_user_id_of(id))
                                            ELSE sessions
    /\ rd' = [rd EXCEPT ![id].pc = "logout_remove"]
    /\ UNCHANGED <<regVars, netVars, users, next_session_id, rng, rateVars, acc, udpVars,
                   chatVars, relayVars, cl, histVars>>

\* AUTH_LOGOUT: remove_client(id); return (main.cpp:840-841).
client_read_loop_logout_remove(id) ==
    /\ id \in DOMAIN rd
    /\ rd[id].pc = "logout_remove"
    /\ remove_client(id)
    /\ rd' = ThreadExit(id)
    /\ UNCHANGED <<dbVars, rateVars, acc, udpVars, chatVars, relayVars, clVars, histVars>>

\* recv_all of the header or of the payload fails: remove_client(id) and
\* return (main.cpp:625-632, 641-648).  The lock_guard is destroyed by hand
\* before remove_client and again when its scope ends; the registry is left
\* as remove_client made it, and a server that stops at the second unlock
\* takes no further step.
client_read_loop_recv_failed(id) ==
    /\ Reading(id)
    /\ remove_client(id)
    /\ rd' = ThreadExit(id)
    /\ UNCHANGED <<dbVars, rateVars, acc, udpVars, chatVars, relayVars, cl, histVars>>

\* AuthDB::delete_account: DELETE FROM users WHERE id = ? (cascades to
\* sessions) when the password matches the stored hash.
delete_account(user_id, password) ==
    LET stored_hash == get_password_hash(user_id)
        success == stored_hash # NoHash /\ crypto_pwhash_str_verify(stored_hash, password)
    IN  [success |-> success,
         users |-> IF success THEN [n \in {x \in DOMAIN users : users[x].id # user_id} |-> users[n]]
                              ELSE users,
         sessions |-> IF success THEN {r \in sessions : r.user_id # user_id} ELSE sessions]

\* AUTH_DELETE_ACCT_REQ: delete_account (main.cpp:805-816).
client_read_loop_AUTH_DELETE_ACCT_REQ(id, password) ==
    LET result == delete_account(db_user_id_of(id), password)
    IN  /\ Reading(id)
        /\ users' = result.users
        /\ sessions' = result.sessions
        /\ rd' = [rd EXCEPT ![id].pc = "delete_resp", ![id].success = result.success]
        /\ UNCHANGED <<regVars, netVars, next_session_id, rng, rateVars, acc, udpVars,
                       chatVars, relayVars, cl, histVars>>

\* AUTH_DELETE_ACCT_REQ: the response (main.cpp:817-822).
client_read_loop_delete_acct_resp(id) ==
    /\ id \in DOMAIN rd
    /\ rd[id].pc = "delete_resp"
    /\ wire' = SendToSelf(wire, id, make_auth_delete_acct_resp(
                    IF rd[id].success THEN "OK" ELSE "ERR_INVALID_CREDS"))
    /\ rd' = [rd EXCEPT ![id].pc = IF rd[id].success THEN "delete_remove" ELSE "idle",
                        ![id].success = FALSE]
    /\ UNCHANGED <<regVars, conn_state, tap, dbVars, rateVars, acc, udpVars, chatVars,
                   relayVars, clVars, histVars>>

\* AUTH_DELETE_ACCT_REQ: remove_client(id); return (main.cpp:824-827).
client_read_loop_delete_acct_remove(id) ==
    /\ id \in DOMAIN rd
    /\ rd[id].pc = "delete_remove"
    /\ remove_client(id)
    /\ rd' = ThreadExit(id)
    /\ UNCHANGED <<dbVars, rateVars, acc, udpVars, chatVars, relayVars, clVars, histVars>>

\* g_chat_mutex is held by a read thread inside its CHAT_SYNC loop.
ChatLocked == \E j \in DOMAIN rd : rd[j].pc = "chat_sync"

\* TEXT_CHAT: the sequence number is taken and the entry pushed under
\* g_chat_mutex (main.cpp:654-674).
client_read_loop_TEXT_CHAT(id) ==
    /\ Reading(id)
    /\ ~ChatLocked
    /\ g_chat_history' = Append(g_chat_history, [seq |-> g_next_seq, sender |-> id])
    /\ g_next_seq' = g_next_seq + 1
    /\ rd' = [rd EXCEPT ![id].pc = "chat_append", ![id].seq = g_next_seq]
    /\ UNCHANGED <<regVars, netVars, dbVars, rateVars, acc, udpVars, chat_file, relayVars, cl,
                   histVars>>

\* A line of the history file, and what parse_chat_line makes of it: the
\* seq is written in decimal and read back by extract_json_int; a line whose
\* seq reads as 0 is not valid.
serialize_chat_line(seq, sender) == [seq |-> seq, sender |-> sender]
parse_chat_line(line) == [seq |-> line.seq, sender |-> line.sender, valid |-> line.seq > 0]

\* TEXT_CHAT: append_chat_to_file(ce), after g_chat_mutex is released
\* (main.cpp:675).
client_read_loop_append_chat_to_file(id) ==
    /\ id \in DOMAIN rd
    /\ rd[id].pc = "chat_append"
    /\ chat_file' = Append(chat_file, serialize_chat_line(rd[id].seq, id))
    /\ rd' = [rd EXCEPT ![id].pc = "chat_broadcast"]
    /\ UNCHANGED <<regVars, netVars, dbVars, rateVars, acc, udpVars, g_chat_history,
                   g_next_seq, relayVars, clVars, histVars>>

\* TEXT_CHAT: the broadcast, under g_clients_mutex (main.cpp:676-679).
client_read_loop_chat_broadcast(id) ==
    /\ id \in DOMAIN rd
    /\ rd[id].pc = "chat_broadcast"
    /\ wire' = broadcast_tcp(wire, make_text_chat_broadcast_v2(rd[id].seq, id))
    /\ rd' = [rd EXCEPT ![id] = RdIdle]
    /\ UNCHANGED <<regVars, conn_state, tap, dbVars, rateVars, acc, udpVars, chatVars,
                   relayVars, clVars, histVars>>

\* CHAT_SYNC: lock g_chat_mutex and start the loop over g_chat_history.
client_read_loop_CHAT_SYNC(id, last_seq) ==
    /\ Reading(id)
    /\ ~ChatLocked
    /\ rd' = [rd EXCEPT ![id].pc = "chat_sync", ![id].seq = last_seq, ![id].i = 1]
    /\ UNCHANGED <<regVars, netVars, dbVars, rateVars, acc, udpVars, chatVars, relayVars, cl,
                   histVars>>

\* Variant of the loop: every entry is sent, whatever its seq.
client_read_loop_chat_sync_entry_all(id) ==
    /\ id \in DOMAIN rd
    /\ rd[id].pc = "chat_sync"
    /\ IF rd[id].i > Len(g_chat_history)
       THEN /\ rd' = [rd EXCEPT ![id] = RdIdle]
            /\ UNCHANGED wire
       ELSE /\ wire' = SendToSelf(wire, id,
                                  make_text_chat_broadcast_v2(g_chat_history[rd[id].i].seq, 0))
            /\ rd' = [rd EXCEPT ![id].i = @ + 1]
    /\ UNCHANGED <<regVars, conn_state, tap, dbVars, rateVars, acc, udpVars, chatVars,
                   relayVars, clVars, histVars>>

\* CHAT_SYNC: one iteration of the loop (the send is under g_clients_mutex),
\* or its end, which unlocks g_chat_mutex.
client_read_loop_chat_sync_entry(id) ==
    /\ id \in DOMAIN rd
    /\ rd[id].pc = "chat_sync"
    /\ IF rd[id].i > Len(g_chat_history)
       THEN /\ rd' = [rd EXCEPT ![id] = RdIdle]
            /\ UNCHANGED wire
       ELSE LET entry == g_chat_history[rd[id].i]
            IN  /\ wire' = IF entry.seq > rd[id].seq
                           THEN SendToSelf(wire, id, make_text_chat_broadcast_v2(entry.seq, 0))
                           ELSE wire
                /\ rd' = [rd EXCEPT ![id].i = @ + 1]
    /\ UNCHANGED <<regVars, conn_state, tap, dbVars, rateVars, acc, udpVars, chatVars,
                   relayVars, clVars, histVars>>

RelayIdle == [pc |-> "wait", audio_items |-> <<>>, frame_items |-> <<>>, todo |-> {}]

(***************************************************************************)
(* Screen relay: the queue, the SCREEN_* handlers of the read threads and  *)
(* the relay thread (server/main.cpp:160-190, 532-597, 710-773).           *)
(***************************************************************************)
RelayItem(data, sharer_id, is_audio, is_keyframe) ==
    [data |-> data, sharer_id |-> sharer_id, is_audio |-> is_audio,
     is_keyframe |-> is_keyframe]

Max(S) == CHOOSE x \in S : \A y \in S : x >= y

RemoveAt(q, k) == [j \in 1..(Len(q) - 1) |-> IF j < k THEN q[j] ELSE q[j + 1]]

\* "drop oldest non-audio, non-keyframe items to prevent unbounded growth"
RECURSIVE LimitDepth(_)
LimitDepth(q) ==
    LET droppable == {k \in 1..Len(q) : ~q[k].is_audio /\ ~q[k].is_keyframe}
    IN  IF Len(q) <= RELAY_QUEUE_DEPTH \/ droppable = {} THEN q
        ELSE LimitDepth(RemoveAt(q, Min(droppable)))

\* Mutant: over the depth limit the oldest item goes, whatever it is.
enqueue_relay_oldest(q, item) ==
    IF Len(q) + 1 > RELAY_QUEUE_DEPTH THEN Tail(Append(q, item)) ELSE Append(q, item)

enqueue_relay(q, item) == LimitDepth(Append(q, item))

client_read_loop_SCREEN_START(id) ==
    /\ Reading(id)
    /\ IF id \in Present
       THEN /\ g_clients' = [g_clients EXCEPT ![id].screen_sharing = TRUE]
            /\ wire' = broadcast_tcp(wire, make_screen_start_broadcast(id))
       ELSE UNCHANGED <<g_clients, wire>>
    /\ UNCHANGED <<g_next_id, g_update, g_running, conn_state, tap, dbVars, rateVars, acc, rd, udpVars,
                   chatVars, relayVars, cl, histVars>>

client_read_loop_SCREEN_STOP(id) ==
    /\ Reading(id)
    /\ IF id \in Present
       THEN /\ g_clients' = [g_clients EXCEPT ![id].screen_sharing = FALSE,
                                              ![id].screen_subscribers = {},
                                              ![id].cached_keyframe = NoKeyframe]
            /\ wire' = broadcast_tcp(wire, make_screen_stop_broadcast(id))
       ELSE UNCHANGED <<g_clients, wire>>
    /\ UNCHANGED <<g_next_id, g_update, g_running, conn_state, tap, dbVars, rateVars, acc, rd, udpVars,
                   chatVars, relayVars, cl, histVars>>

client_read_loop_SCREEN_UNSUBSCRIBE(id, target_id) ==
    /\ Reading(id)
    /\ g_clients' = IF target_id \in Present
                    THEN [g_clients EXCEPT ![target_id].screen_subscribers = @ \ {id}]
                    ELSE g_clients
    /\ UNCHANGED <<g_next_id, g_update, g_running, netVars, dbVars, rateVars, acc, rd, udpVars,
                   chatVars, relayVars, cl, histVars>>

\* Mutant: the sharer is asked for a keyframe although one is cached.
client_read_loop_SCREEN_SUBSCRIBE_both(id, target_id) ==
    LET ok == target_id \in Present /\ g_clients[target_id].screen_sharing
        cached == g_clients[target_id].cached_keyframe
    IN  /\ Reading(id)
        /\ IF ok
           THEN /\ g_clients' = [g_clients EXCEPT ![target_id].screen_subscribers = @ \cup {id}]
                /\ wire' = Send(IF cached # NoKeyframe
                                THEN Send(wire, g_clients[id].tls_socket, cached) ELSE wire,
                                g_clients[target_id].tls_socket, make_screen_request_keyframe_msg)
                /\ sub_at' = [sub_at EXCEPT ![<<id, target_id>>] = Len(produced[target_id])]
           ELSE UNCHANGED <<g_clients, wire, sub_at>>
        /\ UNCHANGED <<g_next_id, g_update, g_running, conn_state, tap, dbVars, rateVars, acc, rd, udpVars,
                       chatVars, g_relay_queue, relay, produced, cl, histVars>>

\* SCREEN_SUBSCRIBE: join the subscribers of target_id and get its cached
\* keyframe, or have the sharer asked for one.
client_read_loop_SCREEN_SUBSCRIBE(id, target_id) ==
    LET ok == target_id \in Present /\ g_clients[target_id].screen_sharing
        cached == g_clients[target_id].cached_keyframe
    IN  /\ Reading(id)
        /\ IF ok
           THEN /\ g_clients' = [g_clients EXCEPT ![target_id].screen_subscribers = @ \cup {id}]
                /\ wire' = IF id \notin Present THEN wire
                           ELSE IF cached # NoKeyframe
                           THEN Send(wire, g_clients[id].tls_socket, cached)
                           ELSE Send(wire, g_clients[target_id].tls_socket,
                                     make_screen_request_keyframe_msg)
                /\ sub_at' = IF id \in g_clients[target_id].screen_subscribers THEN sub_at
                             ELSE [sub_at EXCEPT ![<<id, target_id>>] = Len(produced[target_id])]
           ELSE UNCHANGED <<g_clients, wire, sub_at>>
        /\ UNCHANGED <<g_next_id, g_update, g_running, conn_state, tap, dbVars, rateVars, acc, rd, udpVars,
                       chatVars, g_relay_queue, relay, produced, cl, histVars>>

\* SCREEN_FRAME: build the relay message; a keyframe is cached under
\* g_clients_mutex (main.cpp:751-767).
client_read_loop_SCREEN_FRAME(id, is_keyframe) ==
    LET msg == make_screen_frame_relay(id, Len(produced[id]) + 1, is_keyframe)
    IN  /\ Reading(id)
        /\ produced' = [produced EXCEPT ![id] = Append(@, IF is_keyframe THEN "K" ELSE "P")]
        /\ g_clients' = IF is_keyframe /\ id \in Present
                        THEN [g_clients EXCEPT ![id].cached_keyframe = msg]
                        ELSE g_clients
        /\ rd' = [rd EXCEPT ![id].pc = "enqueue",
                            ![id].relay = RelayItem(msg, id, FALSE, is_keyframe)]
        /\ UNCHANGED <<g_next_id, g_update, g_running, netVars, dbVars, rateVars, acc, udpVars, chatVars,
                       g_relay_queue, relay, sub_at, cl, histVars>>

\* SCREEN_AUDIO: build the relay message (main.cpp:771-772).
client_read_loop_SCREEN_AUDIO(id) ==
    LET msg == make_screen_audio_relay(id, Len(produced[id]) + 1)
    IN  /\ Reading(id)
        /\ produced' = [produced EXCEPT ![id] = Append(@, "A")]
        /\ rd' = [rd EXCEPT ![id].pc = "enqueue",
                            ![id].relay = RelayItem(msg, id, TRUE, FALSE)]
        /\ UNCHANGED <<regVars, netVars, dbVars, rateVars, acc, udpVars, chatVars,
                       g_relay_queue, relay, sub_at, cl, histVars>>

\* The enqueue_relay call that ends SCREEN_FRAME and SCREEN_AUDIO.
client_read_loop_enqueue_relay(id) ==
    /\ id \in DOMAIN rd
    /\ rd[id].pc = "enqueue"
    /\ g_relay_queue' = enqueue_relay(g_relay_queue, rd[id].relay)
    /\ rd' = [rd EXCEPT ![id] = RdIdle]
    /\ UNCHANGED <<regVars, netVars, dbVars, rateVars, acc, udpVars, chatVars, relay, produced,
                   sub_at, clVars, histVars>>

\* send_to_subscribers: one critical section of g_clients_mutex.
send_to_subscribers(w, sharer_id, data) ==
    IF sharer_id \notin Present THEN w
    ELSE SendToIds(w, g_clients[sharer_id].screen_subscribers \cap Present, data)

\* After a send: the pass goes on, or the loop is back at its wait.
RelayAfter(audio_items, todo) ==
    IF audio_items = <<>> /\ todo = {} THEN RelayIdle
    ELSE [relay EXCEPT !.audio_items = audio_items, !.todo = todo]

\* screen_relay_loop: take the whole queue, audio and video apart.
screen_relay_loop_drain ==
    LET frame_items == SelectSeq(g_relay_queue, LAMBDA it : ~it.is_audio)
    IN  /\ relay.pc = "wait"
        /\ g_relay_queue # <<>>
        /\ relay' = [pc |-> "send",
                     audio_items |-> SelectSeq(g_relay_queue, LAMBDA it : it.is_audio),
                     frame_items |-> frame_items,
                     todo |-> {frame_items[k].sharer_id : k \in 1..Len(frame_items)}]
        /\ g_relay_queue' = <<>>
        /\ UNCHANGED <<regVars, netVars, dbVars, rateVars, acc, rd, udpVars, chatVars, produced,
                       sub_at, clVars, histVars>>

\* "Send audio first (high priority)": one item.
screen_relay_loop_audio ==
    /\ relay.pc = "send"
    /\ relay.audio_items # <<>>
    /\ wire' = send_to_subscribers(wire, Head(relay.audio_items).sharer_id,
                                   Head(relay.audio_items).data)
    /\ relay' = RelayAfter(Tail(relay.audio_items), relay.todo)
    /\ UNCHANGED <<regVars, conn_state, tap, dbVars, rateVars, acc, rd, udpVars, chatVars,
                   g_relay_queue, produced, sub_at, clVars, histVars>>

\* Variant: the first frame of the sharer in the batch.
Newest_first(frame_items, id) ==
    frame_items[Min({k \in 1..Len(frame_items) : frame_items[k].sharer_id = id})]

\* newest[frame_items[i].sharer_id] = i, for i ascending.
Newest(frame_items, id) ==
    frame_items[Max({k \in 1..Len(frame_items) : frame_items[k].sharer_id = id})]

\* "For video, only send the NEWEST frame per sharer": one sharer, in the
\* order of the unordered_map.
screen_relay_loop_video ==
    /\ relay.pc = "send"
    /\ relay.audio_items = <<>>
    /\ \E id \in relay.todo :
          /\ wire' = send_to_subscribers(wire, id, Newest(relay.frame_items, id).data)
          /\ relay' = RelayAfter(<<>>, relay.todo \ {id})
    /\ UNCHANGED <<regVars, conn_state, tap, dbVars, rateVars, acc, rd, udpVars, chatVars,
                   g_relay_queue, produced, sub_at, clVars, histVars>>

(***************************************************************************)
(* UDP voice relay thread: udp_relay_loop (server/main.cpp:847-894).       *)
(* A datagram is [src, len, id, data]: source address, length, the u32 at  *)
(* offset 0 and the bytes after it.                                        *)
(***************************************************************************)
DatagramLens == {VOICE_HEADER_SIZE - 1, VOICE_HEADER_SIZE, MAX_VOICE_PACKET + 1}
VoiceData == {"opus"}
Datagrams == [src : Addrs, len : DatagramLens, id : 0..VoiceConns, data : VoiceData]
NoDatagram == [src |-> NoAddr, len |-> 0, id |-> 0, data |-> ""]

\* Winsock recvfrom into buf[MAX_VOICE_PACKET]: a longer datagram fails with
\* WSAEMSGSIZE (SOCKET_ERROR), anything else returns its length.
recvfrom(d) == IF d.len > MAX_VOICE_PACKET THEN -1 ELSE d.len

\* Mutant: the address is taken from every datagram.
LearnAddress_latest(clients, sender_id, sender_addr) ==
    [clients EXCEPT ![sender_id].udp_addr = sender_addr, ![sender_id].udp_known = TRUE]

\* "Register the sender's UDP address on first packet".
LearnAddress(clients, sender_id, sender_addr) ==
    IF ~clients[sender_id].udp_known
    THEN [clients EXCEPT ![sender_id].udp_addr = sender_addr, ![sender_id].udp_known = TRUE]
    ELSE clients

\* Mutant: the loop does not skip the sender.
VoiceTargets_echo(clients, sender_id) ==
    {cid \in DOMAIN clients : clients[cid].udp_known /\ clients[cid].in_voice}

\* The clients the forwarding loop does not skip.
VoiceTargets(clients, sender_id) ==
    {cid \in DOMAIN clients :
        ~(cid = sender_id \/ ~clients[cid].udp_known \/ ~clients[cid].in_voice)}

\* sendto(udp_sock, buf, received, 0, &client.udp_addr, ...)
sendto(clients, cid, d, received) ==
    [cid |-> cid, to |-> clients[cid].udp_addr, len |-> received, id |-> d.id, data |-> d.data]

RECURSIVE ForwardAll(_, _, _, _)
ForwardAll(clients, targets, d, received) ==
    IF targets = <<>> THEN <<>>
    ELSE <<sendto(clients, Head(targets), d, received)>>
         \o ForwardAll(clients, Tail(targets), d, received)

udp_relay_loop(d) ==
    LET received == recvfrom(d)
        sender_id == d.id
        learned == LearnAddress(g_clients, sender_id, d.src)
    IN  /\ udp_rx' = d
        /\ IF received < VOICE_HEADER_SIZE \/ sender_id \notin Present
           THEN /\ udp_tx' = <<>>
                /\ UNCHANGED g_clients
           ELSE /\ g_clients' = learned
                /\ udp_tx' = IF ~learned[sender_id].in_voice THEN <<>>
                             ELSE ForwardAll(learned, SetToSeq(VoiceTargets(learned, sender_id)),
                                             d, received)
        /\ UNCHANGED <<g_next_id, g_update, g_running, netVars, dbVars, rateVars, acc, rd, chatVars, relayVars,
                     clVars, histVars>>

(***************************************************************************)
(* The client (client/connection.cpp, client/network_threads.cpp).         *)
(***************************************************************************)
\* No H264Encoder exists; the capture thread does not run.
NoEncoder == [frame_count |-> 0, output_count |-> 0, force_key_frame |-> FALSE, in_codec |-> <<>>]
NoCapture == [pc |-> "none", is_keyframe |-> FALSE]

\* do_login / do_token_login up to the request written to the socket.
DoLoginSend(c, app, waiting, req) ==
    /\ conn_state[c] = "auth_loop"
    /\ cl[c].pc = "connected"
    /\ cl[c].auth_state = "CONNECTED_UNAUTH"
    /\ cl' = [cl EXCEPT ![c] = [app EXCEPT !.auth_state = "LOGGING_IN", !.pc = waiting]]
    /\ c2s' = [c2s EXCEPT ![c] = Append(@, req)]
    /\ UNCHANGED <<regVars, netVars, dbVars, rateVars, acc, rd, udpVars, chatVars, relayVars,
                   histVars>>

do_login(c, username, password) ==
    DoLoginSend(c, cl[c], "login_wait", make_auth_login_req(username, password))

\* The token presented is the one load_session read from the saved session
\* file of the machine that opened connection c.
do_token_login(c, username, token) ==
    DoLoginSend(c, [cl[c] EXCEPT !.saved_session = token], "token_wait",
                make_auth_token_login_req(username, token))

\* AppState::add_system_msg: the system lines of the chat list, kept apart
\* from the lines that carry a seq.
add_system_msg(app, text) == [app EXCEPT !.system_msgs = Append(@, text)]

\* find_if and erase: the first entry of users with this id goes.
EraseFirst(list, uid) ==
    IF \E k \in 1..Len(list) : list[k] = uid
    THEN RemoveAt(list, Min({k \in 1..Len(list) : list[k] = uid}))
    ELSE list

\* AppState::send_tcp: nothing is written when the socket is gone.
send_tcp(app, out, m) == IF app.tcp THEN Append(out, m) ELSE out

\* The receive slot of the screen viewer and the state of its H264Decoder:
\* got_keyframe, and the frames that went into the codec so far.
NoFrame == Msg("")
NoDecoder == [got_keyframe |-> FALSE, input |-> <<>>]

\* persistence.cpp: the saved session file of the client's machine.
save_session(app, token) == [app EXCEPT !.saved_session = token]
clear_session(app) == [app EXCEPT !.saved_session = ZeroToken]

\* post_auth_setup with an empty chat cache on disk.
post_auth_setup(c, app, my_id, token) ==
    /\ cl' = [cl EXCEPT ![c] =
                 add_system_msg([app EXCEPT !.pc = "running", !.udp = TRUE, !.udp_addr = 1,
                                          !.my_id = my_id,
                                          !.in_voice = FALSE, !.session_token = token,
                                          !.users = <<>>, !.screen_sharing = FALSE,
                                          !.watching_user_id = 0, !.force_keyframe = FALSE,
                                          !.last_known_seq = 0, !.chat_messages = <<>>,
                                          !.jitter_buffers = <<>>,
                                          !.screen_frame_buf = NoFrame,
                                          !.screen_frame_new = FALSE, !.decoder = NoDecoder,
                                          !.auth_state = "AUTHENTICATED", !.connected = TRUE,
                                          !.threads = @ \cup {"tcp_thread", "screen_decode_thread"}],
                                "Connected!")]
    /\ c2s' = [c2s EXCEPT ![c] = Append(@, make_chat_sync_msg(0))]

\* do_login / do_token_login from "Read response" on: the next header of the
\* stream must have the expected type.  After a header of another type the
\* call returns with the payload of that message unread; the model reads
\* nothing more from this connection.
DoLoginResponse(c, waiting, expected) ==
    LET header == Head(wire[c])
    IN  /\ cl[c].pc = waiting
        /\ wire[c] # <<>>
        /\ wire' = [wire EXCEPT ![c] = Tail(@)]
        /\ IF header.type # expected
           THEN /\ cl' = [cl EXCEPT ![c].auth_state = "CONNECTED_UNAUTH", ![c].pc = "desync"]
                /\ UNCHANGED c2s
           ELSE IF header.status # "OK"
           THEN /\ cl' = [cl EXCEPT ![c] =
                             [(IF waiting = "token_wait" THEN clear_session(@) ELSE @)
                                 EXCEPT !.auth_state = "CONNECTED_UNAUTH", !.pc = "connected"]]
                /\ UNCHANGED c2s
           ELSE post_auth_setup(c, save_session(cl[c], header.token), header.id, header.token)
        /\ UNCHANGED <<regVars, conn_state, tap, dbVars, rateVars, acc, rd, udpVars, chatVars,
                       relayVars, histVars>>

do_login_response(c) == DoLoginResponse(c, "login_wait", "AUTH_LOGIN_RESP")

do_token_login_response(c) == DoLoginResponse(c, "token_wait", "AUTH_TOKEN_LOGIN_RESP")

\* The session tokens save_session has written to disk.
SavedTokens == {cl[c].session_token : c \in {b \in Conns : cl[b].auth_state = "AUTHENTICATED"}}

\* tcp_receive_thread: one message.  TEXT_CHAT is added to the chat list
\* unless its seq is not above last_known_seq.
tcp_receive_thread(c) ==
    LET m == Head(wire[c])
    IN  /\ cl[c].pc = "running"
        /\ cl[c].connected
        /\ wire[c] # <<>>
        /\ wire' = [wire EXCEPT ![c] = Tail(@)]
        /\ cl' = IF m.type = "TEXT_CHAT" /\ ~(m.seq <= cl[c].last_known_seq)
                 THEN [cl EXCEPT ![c].chat_messages = Append(@, m.seq),
                                 ![c].last_known_seq = m.seq]
                 ELSE IF m.type = "USER_JOINED"
                 THEN [cl EXCEPT ![c] = add_system_msg([@ EXCEPT !.users = Append(@, m.id)],
                                                       "joined.")]
                 ELSE IF m.type = "USER_LEFT"
                 THEN [cl EXCEPT ![c] = add_system_msg(
                          [@ EXCEPT !.users = EraseFirst(@, m.id),
                                    !.watching_user_id = IF @ = m.id THEN 0 ELSE @],
                          "left.")]
                 ELSE IF m.type = "SCREEN_REQUEST_KEYFRAME"
                 THEN [cl EXCEPT ![c].force_keyframe = TRUE,
                                 ![c].idr_owed = cl[c].screen_sharing]
                 ELSE cl
        /\ UNCHANGED <<regVars, conn_state, tap, dbVars, rateVars, acc, rd, udpVars, chatVars,
                       relayVars, c2s, histVars>>

\* The acceptor reads the request the client of its connection wrote.
recv_auth_request ==
    LET m == Head(c2s[acc.conn])
    IN  /\ acc.pc = "auth_loop"
        /\ c2s[acc.conn] # <<>>
        /\ c2s' = [c2s EXCEPT ![acc.conn] = Tail(@)]
        /\ IF m.type = "AUTH_LOGIN_REQ"
           THEN auth_login_req(m.username, m.password, TRUE)
           ELSE /\ m.type = "AUTH_TOKEN_LOGIN_REQ"
                /\ auth_token_login_req(m.username, m.token, TRUE)

\* The read thread of id reads the CHAT_SYNC its client wrote.
recv_CHAT_SYNC(id) ==
    LET c == g_clients[id].tls_socket
        m == Head(c2s[c])
    IN  /\ id \in Present
        /\ c2s[c] # <<>>
        /\ m.type = "CHAT_SYNC"
        /\ c2s' = [c2s EXCEPT ![c] = Tail(@)]
        /\ client_read_loop_CHAT_SYNC(id, m.seq)

(***************************************************************************)
(* Initial state: the server has started (main, server/main.cpp:908-992);  *)
(* the auth database on disk holds the account alice; nobody is connected. *)
(***************************************************************************)
\* The client after do_tls_connect.
ClientIdle == [pc |-> "connected", auth_state |-> "CONNECTED_UNAUTH", my_id |-> 0,
               session_token |-> ZeroToken, last_known_seq |-> 0, chat_messages |-> <<>>,
               system_msgs |-> <<>>, connected |-> FALSE, tcp |-> TRUE, udp |-> FALSE,
               in_voice |-> FALSE, users |-> <<>>, threads |-> {},
               screen_sharing |-> FALSE, watching_user_id |-> 0, force_keyframe |-> FALSE,
               screen_send_queue |-> <<>>, enc |-> NoEncoder, cap |-> NoCapture,
               idr_owed |-> FALSE, jitter_buffers |-> <<>>, mixed |-> <<>>, voice_rx |-> 0,
               udp_addr |-> NoAddr, saved_session |-> ZeroToken,
               screen_frame_buf |-> NoFrame, screen_frame_new |-> FALSE,
               decoder |-> NoDecoder]

InitUsers == "alice" :> [id |-> 1, password_hash |-> crypto_pwhash_str("passw0rd")]

InitServer ==
    /\ g_clients = <<>>
    /\ g_next_id = 1
    /\ g_running = TRUE
    /\ conn_state = [c \in Conns |-> "none"]
    /\ wire = [c \in Conns |-> <<>>]
    /\ users = InitUsers
    /\ sessions = {}
    /\ next_session_id = 1
    /\ rng = 0
    /\ now = RATE_LIMIT_WINDOW_SECS
    /\ acc = AccIdle
    /\ rd = <<>>
    /\ udp_rx = NoDatagram
    /\ udp_tx = <<>>
    /\ g_chat_history = <<>>
    /\ g_next_seq = 1
    /\ chat_file = <<>>
    /\ g_relay_queue = <<>>
    /\ relay = RelayIdle
    /\ produced = [id \in Conns |-> <<>>]
    /\ sub_at = [k \in Conns \X Conns |-> 0]
    /\ cl = [c \in Conns |-> ClientIdle]
    /\ c2s = [c \in Conns |-> <<>>]
    /\ last_auth = NoAuth
    /\ tok = <<>>
    /\ pw_changed = [u \in UserIds |-> ""]

\* No address has an entry in g_rate_limits: operator[] makes one with
\* failures = 0 and window_start = the epoch of the clock.
NoFailures ==
    /\ g_rate_limits = [ip \in Ips |-> [failures |-> 0, window_start |-> 0]]
    /\ fail_log = [ip \in Ips |-> <<>>]

\* Every address has failed n credential checks in the window it started now.
PriorFailures(n) ==
    /\ g_rate_limits = [ip \in Ips |-> [failures |-> n, window_start |-> now]]
    /\ fail_log = [ip \in Ips |-> [i \in 1..n |-> now]]

\* A peer that logs in as alice with the right password.
ValidLogin == auth_login_req("alice", "passw0rd", TRUE) /\ UNCHANGED c2s

\* A peer that tries a wrong password, and one that sends half a payload.
WrongLogin == auth_login_req("alice", "hunter2hunter2", TRUE) /\ UNCHANGED c2s
MalformedLogin == auth_login_req("alice", "", FALSE) /\ UNCHANGED c2s

\* A peer that presents a token no session has.
StaleTokenLogin == auth_token_login_req("alice", ZeroToken, TRUE) /\ UNCHANGED c2s

\* The acceptor steps that follow an accepted request.
AcceptorSteps ==
    \/ auth_login_verify
    \/ auth_token_select
    \/ auth_token_delete
    \/ create_session
    \/ auth_setup
    \/ auth_send_resp

(***************************************************************************)
(* SpecVoice: clients log in, join and leave voice, leave; datagrams       *)
(* arrive at the UDP port.                                                 *)
(***************************************************************************)
InitVoice == InitServer /\ NoFailures /\ g_update = FALSE /\ tap = {}

NextVoice ==
    \/ \E c \in 1..VoiceConns : tcp_accept(c)
    \/ ValidLogin
    \/ auth_login_verify
    \/ create_session
    \/ auth_setup
    \/ auth_send_resp
    \/ \E id \in 1..VoiceConns : client_read_loop_VOICE_JOIN(id) /\ UNCHANGED c2s
    \/ \E id \in 1..VoiceConns : client_read_loop_VOICE_LEAVE(id) /\ UNCHANGED c2s
    \/ \E id \in 1..VoiceConns : client_read_loop_LEAVE(id) /\ UNCHANGED c2s
    \/ \E d \in Datagrams : udp_relay_loop(d)

SpecVoice == InitVoice /\ [][NextVoice]_vars

(***************************************************************************)
(* Claims checked under SpecVoice.                                         *)
(***************************************************************************)
SendsTo(tx, cid) == {i \in 1..Len(tx) : tx[i].cid = cid}

\* C10: for each datagram of 8..MAX_VOICE_PACKET bytes the relay reads with
\* sender id X: if X is present and in_voice, exactly one sendto goes to each
\* client Y # X that is in_voice with a learned address, to that address and
\* with the datagram's own length and bytes, and none to anybody else; if X
\* is absent or not in_voice, or the datagram is shorter than 8 bytes (or
\* recvfrom failed), nothing is sent.
C10_VoiceRelayExactlyOnce ==
    [][(udp_rx' # udp_rx \/ udp_tx' # udp_tx) =>
        LET d == udp_rx'
            X == d.id
            relayed == /\ d.len >= 8 /\ d.len <= MAX_VOICE_PACKET
                       /\ X \in Present /\ g_clients[X].in_voice
        IN  /\ \A i \in 1..Len(udp_tx') :
                 /\ udp_tx'[i].cid \in Present
                 /\ udp_tx'[i].to = g_clients[udp_tx'[i].cid].udp_addr
                 /\ udp_tx'[i].len = d.len
                 /\ udp_tx'[i].id = d.id
                 /\ udp_tx'[i].data = d.data
            /\ \A Y \in Present :
                 Cardinality(SendsTo(udp_tx', Y)) =
                    IF relayed /\ Y # X /\ g_clients[Y].in_voice /\ g_clients[Y].udp_known
                    THEN 1 ELSE 0
            /\ ~relayed => udp_tx' = <<>>
      ]_vars

\* C10 witness: a datagram of at least 8 bytes was forwarded to a peer.
C10_Witness ==
    /\ udp_rx.len >= 8
    /\ Len(udp_tx) = 1
    /\ udp_tx[1].cid # udp_rx.id

\* C11: the voice address of a client record is set by the first datagram
\* with its id that the relay accepts, to that datagram's source address,
\* and no later step changes it while the record exists: a datagram with the
\* same id from another source leaves udp_addr as it was.
C11_VoiceAddressLearnedOnce ==
    [][\A id \in DOMAIN g_clients \cap DOMAIN g_clients' :
          /\ g_clients[id].udp_known =>
                /\ g_clients'[id].udp_known
                /\ g_clients'[id].udp_addr = g_clients[id].udp_addr
          /\ (~g_clients[id].udp_known /\ g_clients'[id].udp_known) =>
                /\ udp_rx'.id = id
                /\ g_clients'[id].udp_addr = udp_rx'.src
          /\ (~g_clients[id].udp_known /\ udp_rx' # udp_rx /\ udp_rx'.id = id
                /\ udp_rx'.len >= VOICE_HEADER_SIZE /\ udp_rx'.len <= MAX_VOICE_PACKET) =>
                g_clients'[id].udp_known
      ]_vars

\* C11 witness: a datagram with the id of a client whose address is known
\* was accepted from another source address.
C11_Witness ==
    /\ udp_rx.id \in Present
    /\ udp_rx.len >= VOICE_HEADER_SIZE
    /\ udp_rx.len <= MAX_VOICE_PACKET
    /\ g_clients[udp_rx.id].udp_known
    /\ g_clients[udp_rx.id].udp_addr # udp_rx.src

(***************************************************************************)
(* SpecRate: peers connect and try to log in, with right and wrong         *)
(* passwords and tokens, while the clock advances.                         *)
(***************************************************************************)
InitRate == InitServer /\ NoFailures /\ g_update = FALSE /\ tap = {}

NextRate ==
    \/ \E c \in Conns : tcp_accept(c)
    \/ auth_loop_connection_lost
    \/ ValidLogin
    \/ WrongLogin
    \/ MalformedLogin
    \/ StaleTokenLogin
    \/ auth_login_verify
    \/ auth_token_select
    \/ create_session
    \/ auth_setup
    \/ auth_send_resp
    \/ Tick

SpecRate == InitRate /\ [][NextRate]_vars

(***************************************************************************)
(* Claims checked under SpecRate.                                          *)
(***************************************************************************)
\* C8: in any interval of 60 seconds at most 5 attempts from one address reach
\* the credential check and fail (sliding window): the failed checks of the
\* last 60 seconds, per address, are never more than RATE_LIMIT_MAX_FAILURES.
C8_AtMostFiveFailuresPerMinute ==
    \A ip \in Ips : Len(fail_log[ip]) <= RATE_LIMIT_MAX_FAILURES

\* The window of ip is running and already holds the maximum of failures.
Limited(ip) ==
    /\ g_rate_limits[ip].failures >= RATE_LIMIT_MAX_FAILURES
    /\ now - g_rate_limits[ip].window_start < RATE_LIMIT_WINDOW_SECS

\* The failed checks logged for ip since its window started.
FailedInWindow(ip) ==
    Len(SelectSeq(fail_log[ip], LAMBDA f : f >= g_rate_limits[ip].window_start))

\* C9: while the window of an address runs, its counter is the number of
\* failed checks made from the address in the window; once that is five, an
\* attempt from the address starts no credential check and is answered
\* ERR_RATE_LIMITED, whatever the credentials; a successful login leaves the
\* counter as it is; the counter goes down only when the window has elapsed.
C9_SixthAttemptRateLimited ==
    /\ [](\A ip \in Ips :
            now - g_rate_limits[ip].window_start < RATE_LIMIT_WINDOW_SECS
                => g_rate_limits[ip].failures = FailedInWindow(ip))
    /\ [][/\ (acc.pc = "auth_loop" /\ Limited(PeerIp(acc.conn))) =>
               /\ acc'.pc \in {"auth_loop", "accept"}
               /\ last_auth' # last_auth =>
                    last_auth'.status = "ERR_RATE_LIMITED" /\ last_auth'.conn = acc.conn
               /\ g_rate_limits' = g_rate_limits
               /\ fail_log' = fail_log \/ now' # now
          /\ acc.pc \in {"create_session", "setup", "send_resp"} =>
               g_rate_limits' = g_rate_limits
          /\ acc'.pc = "create_session" => g_rate_limits' = g_rate_limits
          /\ \A ip \in Ips :
               g_rate_limits'[ip].failures < g_rate_limits[ip].failures =>
                  now - g_rate_limits[ip].window_start >= RATE_LIMIT_WINDOW_SECS
         ]_vars

\* C9 witness: after a successful login and five failures in the window, the
\* right password of alice was answered ERR_RATE_LIMITED.
C9_Witness ==
    /\ last_auth.status = "ERR_RATE_LIMITED"
    /\ last_auth.kind = "login"
    /\ verify_login(last_auth.username, last_auth.password).success
    /\ Limited(PeerIp(last_auth.conn))
    /\ \E t \in DOMAIN tok : tok[t].sent = 1

(***************************************************************************)
(* SpecAuth: peers log in with passwords and with tokens; clients change   *)
(* their password and log out while the acceptor serves other peers.       *)
(***************************************************************************)
MaxTokens == 3       \* tokens minted in SpecAuth
FailedBefore == 3    \* failed attempts each address made just before SpecAuth starts

InitAuth == InitServer /\ PriorFailures(FailedBefore) /\ g_update = FALSE /\ tap = {}

LoginPasswords == {"passw0rd", "hunter2hunter2"}
NewPasswords == {"hunter2hunter2", "short"}

NextAuth ==
    \/ \E c \in Conns : tcp_accept(c)
    \/ auth_loop_connection_lost
    \/ \E p \in LoginPasswords :
            rng < MaxTokens /\ auth_login_req("alice", p, TRUE) /\ UNCHANGED c2s
    \/ \E t \in 0..rng :
            rng < MaxTokens /\ auth_token_login_req("alice", t, TRUE) /\ UNCHANGED c2s
    \/ auth_login_verify
    \/ auth_token_select
    \/ auth_token_delete
    \/ create_session
    \/ auth_setup
    \/ auth_send_resp
    \/ \E id \in Conns, o \in LoginPasswords, n \in NewPasswords :
            client_read_loop_AUTH_CHANGE_PASS_REQ(id, o, n) /\ UNCHANGED c2s
    \/ \E id \in Conns : change_password_verify(id)
    \/ \E id \in Conns : change_password_update(id)
    \/ \E id \in Conns : change_password_invalidate(id)
    \/ \E id \in Conns : client_read_loop_change_pass_resp(id)
    \/ \E id \in Conns : client_read_loop_AUTH_LOGOUT(id) /\ UNCHANGED c2s
    \/ \E id \in Conns : client_read_loop_logout_remove(id)

SpecAuth == InitAuth /\ [][NextAuth]_vars

(***************************************************************************)
(* Claims checked under SpecAuth.                                          *)
(***************************************************************************)
SessionsOfToken(t) == {s \in sessions : s.token_hash = hash_token(t)}

\* C5: a token is accepted by at most one token login; once that login has
\* run its DELETE the token has no session row; the token minted for the login
\* is another one; a later token login that presents the token is answered
\* ERR_TOKEN_EXPIRED.
C5_RollingToken ==
    /\ [](\A t \in DOMAIN tok :
            /\ tok[t].accepted <= 1
            /\ (tok[t].accepted = 1 /\ ~(acc.pc = "token_delete" /\ acc.raw_token = t))
                   => SessionsOfToken(t) = {})
    /\ [](acc.kind = "token" /\ acc.pc \in {"setup", "send_resp"}
              => acc.token # acc.raw_token /\ tok[acc.token].sent = 0)
    /\ [][(/\ acc.pc = "token_verify"
           /\ acc' # acc
           /\ acc.raw_token \in DOMAIN tok
           /\ tok[acc.raw_token].accepted >= 1)
          => /\ acc'.pc = "auth_loop"
             /\ last_auth'.status = "ERR_TOKEN_EXPIRED"
             /\ last_auth'.raw_token = acc.raw_token
             /\ last_auth'.token = ZeroToken]_vars

\* C5 witness: a token that a token login accepted was presented again and
\* answered ERR_TOKEN_EXPIRED.
C5_Witness ==
    /\ last_auth.kind = "token"
    /\ last_auth.status = "ERR_TOKEN_EXPIRED"
    /\ last_auth.raw_token \in DOMAIN tok
    /\ tok[last_auth.raw_token].accepted = 1

\* C6: once an AUTH_CHANGE_PASS of user U has been answered OK, every session
\* row of U goes back to a login that verified the new password.
C6_ChangePassInvalidatesSessions ==
    \A s \in sessions : \A t \in DOMAIN tok :
        (s.token_hash = hash_token(t) /\ pw_changed[s.user_id] # "")
            => tok[t].root = pw_changed[s.user_id]

\* C7: a minted token is carried by no response until the OK response of the
\* request that minted it is sent, and by exactly one from then on; a response
\* with another status carries the all-zero placeholder.
C7_TokenSentOnce ==
    /\ [](\A t \in DOMAIN tok :
            tok[t].sent = IF acc.token = t /\ acc.pc \in {"setup", "send_resp"} THEN 0 ELSE 1)
    /\ [][last_auth' # last_auth =>
            IF last_auth'.status = "OK"
            THEN /\ acc.pc = "send_resp"
                 /\ last_auth'.token = acc.token
                 /\ last_auth'.conn = acc.conn
                 /\ tok[acc.token].sent = 0
            ELSE last_auth'.token = ZeroToken]_vars

\* C7 witness: a token went out in its OK response and a failure response was
\* sent after it.
C7_Witness ==
    /\ last_auth.status \notin {"", "OK"}
    /\ \E t \in DOMAIN tok : tok[t].sent = 1

(***************************************************************************)
(* SpecLogin: clients connect and log in, with the password or with a      *)
(* saved token; the server may have an update notification configured.     *)
(***************************************************************************)
InitLogin == InitServer /\ NoFailures /\ g_update \in BOOLEAN /\ tap = Conns

NextLogin ==
    \/ \E c \in Conns : tcp_accept(c)
    \/ \E c \in Conns : do_login(c, "alice", "passw0rd")
    \/ \E c \in Conns, t \in SavedTokens : do_token_login(c, "alice", t)
    \/ recv_auth_request
    \/ auth_login_verify
    \/ auth_token_select
    \/ auth_token_delete
    \/ create_session
    \/ auth_setup
    \/ auth_send_resp
    \/ \E c \in Conns : do_login_response(c)
    \/ \E c \in Conns : do_token_login_response(c)
    \/ \E c \in Conns : tcp_receive_thread(c)
    \/ \E id \in Conns : recv_CHAT_SYNC(id)
    \/ \E id \in Conns : client_read_loop_chat_sync_entry(id)

SpecLogin == InitLogin /\ [][NextLogin]_vars

(***************************************************************************)
(* Claims checked under SpecLogin.                                         *)
(***************************************************************************)
\* C4: when the server has accepted the login of a connection (post-auth setup
\* done, response with status OK sent) and the client's do_login or
\* do_token_login call has returned, the client is AUTHENTICATED.
C4_AcceptedLoginAuthenticates ==
    \A c \in Conns :
        (conn_state[c] = "client" /\ cl[c].pc \notin {"login_wait", "token_wait"})
            => cl[c].auth_state = "AUTHENTICATED"

(***************************************************************************)
(* SpecChat: the client of connection 1 logs in with an empty chat cache   *)
(* and syncs; it and the peers of the other connections send text chat.    *)
(***************************************************************************)
ChatConns == 2       \* connections accepted in SpecChat
MaxChat == 2         \* chat messages sent in SpecChat

InitChat == InitServer /\ NoFailures /\ g_update = FALSE /\ tap = {1}

\* The peer of a connection without a modelled client logs in.
PeerLogin == acc.conn \notin tap /\ ValidLogin

\* The user of client id types a line; what its client wrote before has
\* been read.
PeerChat(id) ==
    /\ g_next_seq <= MaxChat
    /\ id \in Present
    /\ c2s[g_clients[id].tls_socket] = <<>>
    /\ client_read_loop_TEXT_CHAT(id)
    /\ UNCHANGED c2s

NextChat ==
    \/ \E c \in 1..ChatConns : tcp_accept(c)
    \/ \E c \in tap : do_login(c, "alice", "passw0rd")
    \/ recv_auth_request
    \/ PeerLogin
    \/ auth_login_verify
    \/ create_session
    \/ auth_setup
    \/ auth_send_resp
    \/ \E c \in tap : do_login_response(c)
    \/ \E c \in tap : tcp_receive_thread(c)
    \/ \E id \in 1..ChatConns : recv_CHAT_SYNC(id)
    \/ \E id \in 1..ChatConns : client_read_loop_chat_sync_entry(id)
    \/ \E id \in 1..ChatConns : PeerChat(id)
    \/ \E id \in 1..ChatConns : client_read_loop_append_chat_to_file(id)
    \/ \E id \in 1..ChatConns : client_read_loop_chat_broadcast(id)

SpecChat == InitChat /\ [][NextChat]_vars

(***************************************************************************)
(* Claims checked under SpecChat.                                          *)
(***************************************************************************)
\* C1: the chat sequence numbers a client has accepted into its chat list
\* are 1, 2, ..., max, in this order.
C1_ChatGapFree ==
    \A c \in Conns :
        \A k \in 1..Len(cl[c].chat_messages) : cl[c].chat_messages[k] = k

(***************************************************************************)
(* SpecRelay: clients log in, start sharing, subscribe to each other and   *)
(* send screen frames and audio; the relay thread forwards them.           *)
(***************************************************************************)
RelayConns == 2      \* connections accepted in SpecRelay
Sharers == {1}       \* the clients that share their screen in SpecRelay
MaxFrames == 3       \* SCREEN_FRAME and SCREEN_AUDIO messages a sharer sends

InitRelay == InitServer /\ NoFailures /\ g_update = FALSE /\ tap = Conns

\* A client starts sharing once, sends frames and audio while it shares,
\* and subscribes to a sharer it is not subscribed to.
Sharing(id) == id \in Present /\ g_clients[id].screen_sharing

PeerScreenStart(id) ==
    ~Sharing(id) /\ client_read_loop_SCREEN_START(id) /\ UNCHANGED c2s

PeerScreenFrame(id, is_keyframe) ==
    /\ Sharing(id)
    /\ Len(produced[id]) < MaxFrames
    /\ client_read_loop_SCREEN_FRAME(id, is_keyframe)
    /\ UNCHANGED c2s

PeerScreenAudio(id) ==
    /\ Sharing(id)
    /\ Len(produced[id]) < MaxFrames
    /\ client_read_loop_SCREEN_AUDIO(id)
    /\ UNCHANGED c2s

PeerScreenSubscribe(id, target_id) ==
    /\ id # target_id
    /\ Sharing(target_id)
    /\ id \notin g_clients[target_id].screen_subscribers
    /\ client_read_loop_SCREEN_SUBSCRIBE(id, target_id)
    /\ UNCHANGED c2s

NextRelay ==
    \/ \E c \in 1..RelayConns : tcp_accept(c)
    \/ ValidLogin
    \/ auth_login_verify
    \/ create_session
    \/ auth_setup
    \/ auth_send_resp
    \/ \E id \in Sharers : PeerScreenStart(id)
    \/ \E id \in Sharers, k \in BOOLEAN : PeerScreenFrame(id, k)
    \/ \E id \in Sharers : PeerScreenAudio(id)
    \/ \E id \in 1..RelayConns, t \in Sharers : PeerScreenSubscribe(id, t)
    \/ \E id \in 1..RelayConns : client_read_loop_enqueue_relay(id)
    \/ screen_relay_loop_drain
    \/ screen_relay_loop_audio
    \/ screen_relay_loop_video

SpecRelay == InitRelay /\ [][NextRelay]_vars

(***************************************************************************)
(* Claims checked under SpecRelay.                                         *)
(***************************************************************************)
\* The positions, in what sharer S sent, of the video frames of S written to
\* the connection of client R, in the order written.
FramesSentTo(R, S) ==
    SelectSeq(wire[g_clients[R].tls_socket], LAMBDA m : m.type = "SCREEN_FRAME" /\ m.id = S)

\* No frame is on its way: the queue is empty, the relay waits and no read
\* thread is inside a handler.
RelayQuiet ==
    /\ g_relay_queue = <<>>
    /\ relay.pc = "wait"
    /\ \A id \in DOMAIN rd : rd[id].pc = "idle"

\* C2: when no frame is on its way, every keyframe the server read from
\* sharer S after R subscribed to S has been sent to R.
C2_KeyframesNeverDropped ==
    \A S \in Present : \A R \in Present :
        (R \in g_clients[S].screen_subscribers /\ RelayQuiet) =>
            \A n \in (sub_at[<<R, S>>] + 1)..Len(produced[S]) :
                produced[S][n] = "K" =>
                    \E k \in 1..Len(FramesSentTo(R, S)) : FramesSentTo(R, S)[k].seq = n

\* C3: the video frames of S sent to R are in the order S produced them; a
\* frame is never followed by one S produced before it.
C3_VideoNeverReordered ==
    \A S \in Present : \A R \in Present :
        \A k \in 1..Len(FramesSentTo(R, S)) : \A j \in 1..k :
            FramesSentTo(R, S)[j].seq <= FramesSentTo(R, S)[k].seq

(***************************************************************************)
(* SpecRegistry: clients log in, join and leave voice, start and stop      *)
(* sharing, subscribe and unsubscribe, and go away by LEAVE, transport     *)
(* error, logout or account deletion.                                      *)
(***************************************************************************)
RegConns == 3        \* connections accepted in SpecRegistry
RegActive == 2       \* clients that use voice and share in SpecRegistry

InitRegistry == InitServer /\ NoFailures /\ g_update = FALSE /\ tap = Conns


\* Every peer has read what was sent to it.  The server never reads wire, so
\* a request that waits for this loses no server behaviour.
AllRead == \A c \in Conns : wire[c] = <<>>

\* The peers read the messages waiting on their connections.
PeerDrain ==
    /\ ~AllRead
    /\ wire' = [c \in Conns |-> <<>>]
    /\ UNCHANGED <<regVars, conn_state, tap, dbVars, rateVars, acc, rd, udpVars, chatVars,
                   relayVars, clVars, histVars>>

\* The first RegActive clients use voice and share; every client subscribes,
\* to itself as well, and every client goes away in every way.
RegistryRequest(id) ==
    \/ id <= RegActive /\ client_read_loop_VOICE_JOIN(id)
    \/ id <= RegActive /\ client_read_loop_VOICE_LEAVE(id)
    \/ id <= RegActive /\ client_read_loop_SCREEN_START(id)
    \/ id <= RegActive /\ client_read_loop_SCREEN_STOP(id)
    \/ \E t \in 1..RegActive : client_read_loop_SCREEN_SUBSCRIBE(id, t)
    \/ \E t \in 1..RegActive : client_read_loop_SCREEN_UNSUBSCRIBE(id, t)
    \/ client_read_loop_LEAVE(id)
    \/ client_read_loop_recv_failed(id)
    \/ client_read_loop_AUTH_LOGOUT(id)
    \/ \E p \in LoginPasswords : client_read_loop_AUTH_DELETE_ACCT_REQ(id, p)

NextRegistry ==
    \/ \E c \in 1..RegConns : tcp_accept(c)
    \/ AllRead /\ ValidLogin
    \/ auth_login_verify
    \/ create_session
    \/ auth_setup
    \/ auth_send_resp
    \/ \E id \in 1..RegConns : AllRead /\ RegistryRequest(id) /\ UNCHANGED c2s
    \/ \E id \in 1..RegConns : client_read_loop_logout_remove(id)
    \/ \E id \in 1..RegConns : client_read_loop_delete_acct_resp(id)
    \/ \E id \in 1..RegConns : client_read_loop_delete_acct_remove(id)
    \/ PeerDrain

SpecRegistry == InitRegistry /\ [][NextRegistry]_vars

RemovalNotice(X) ==
    (IF g_clients[X].in_voice THEN <<make_voice_left_broadcast(X)>> ELSE <<>>)
    \o (IF g_clients[X].screen_sharing THEN <<make_screen_stop_broadcast(X)>> ELSE <<>>)
    \o <<make_user_left_msg(X)>>

SubConns == 2        \* connections accepted in SpecSubscribe
SubFrames == 2       \* SCREEN_FRAME messages a sharer sends in SpecSubscribe

InitSubscribe == InitServer /\ NoFailures /\ g_update = FALSE /\ tap = Conns

SubscribeRequest(id) ==
    \/ client_read_loop_SCREEN_START(id)
    \/ client_read_loop_SCREEN_STOP(id)
    \/ \E t \in 1..(SubConns + 1) : client_read_loop_SCREEN_SUBSCRIBE(id, t)
    \/ \E k \in BOOLEAN :
          /\ id \in Sharers
          /\ Len(produced[id]) < SubFrames
          /\ client_read_loop_SCREEN_FRAME(id, k)

NextSubscribe ==
    \/ \E c \in 1..SubConns : tcp_accept(c)
    \/ AllRead /\ ValidLogin
    \/ auth_login_verify
    \/ create_session
    \/ auth_setup
    \/ auth_send_resp
    \/ \E id \in 1..SubConns : AllRead /\ SubscribeRequest(id) /\ UNCHANGED c2s
    \/ \E id \in 1..SubConns : client_read_loop_enqueue_relay(id)
    \/ screen_relay_loop_drain
    \/ screen_relay_loop_video
    \/ PeerDrain

SpecSubscribe == InitSubscribe /\ [][NextSubscribe]_vars

(***************************************************************************)
(* Claims checked under SpecSubscribe.                                     *)
(***************************************************************************)
\* C15: a SCREEN_SUBSCRIBE(tid) from client C, when tid is present and
\* sharing, adds C to the subscribers of tid and sends one message: the
\* cached keyframe of tid to C if there is one, SCREEN_REQUEST_KEYFRAME to
\* tid if there is none; no other connection gets anything.  When tid is
\* absent or not sharing, nothing is sent and the registry does not change.
C15_SubscribeSendsOneOfTwo ==
    [][\A C \in 1..SubConns : \A tid \in 1..(SubConns + 1) :
          client_read_loop_SCREEN_SUBSCRIBE(C, tid) =>
              IF tid \in Present /\ g_clients[tid].screen_sharing
              THEN /\ g_clients' = [g_clients EXCEPT ![tid].screen_subscribers = @ \cup {C}]
                   /\ \A c \in Conns :
                        wire'[c] = wire[c] \o
                            (IF g_clients[tid].cached_keyframe # NoKeyframe
                             THEN IF c = g_clients[C].tls_socket
                                  THEN <<g_clients[tid].cached_keyframe>> ELSE <<>>
                             ELSE IF c = g_clients[tid].tls_socket
                                  THEN <<make_screen_request_keyframe_msg>> ELSE <<>>)
              ELSE g_clients' = g_clients /\ wire' = wire
      ]_vars

\* C15 witness: a subscriber other than the sharer has just been sent the
\* cached keyframe of a sharer.
C15_Witness ==
    \E S \in Present : \E C \in g_clients[S].screen_subscribers \ {S} :
        /\ C \in Present
        /\ g_clients[S].cached_keyframe # NoKeyframe
        /\ wire[g_clients[C].tls_socket] = <<g_clients[S].cached_keyframe>>
        /\ wire[g_clients[S].tls_socket] = <<>>

\* The cached keyframe of sharer S is stale: S has sent a later frame that
\* is not a keyframe.
StaleKeyframe(S) ==
    /\ g_clients[S].cached_keyframe # NoKeyframe
    /\ \E n \in (g_clients[S].cached_keyframe.seq + 1)..Len(produced[S]) : produced[S][n] = "P"

\* C16: a SCREEN_SUBSCRIBE(tid) from client C, when tid is present and
\* sharing and its cached keyframe is stale, sends SCREEN_REQUEST_KEYFRAME
\* to tid.
C16_StaleKeyframeRequested ==
    [][\A C \in 1..SubConns : \A tid \in 1..SubConns :
          ( /\ client_read_loop_SCREEN_SUBSCRIBE(C, tid)
            /\ tid \in Present
            /\ g_clients[tid].screen_sharing
            /\ StaleKeyframe(tid) ) =>
              \E k \in 1..Len(wire'[g_clients[tid].tls_socket]) :
                  wire'[g_clients[tid].tls_socket][k] = make_screen_request_keyframe_msg
      ]_vars

(***************************************************************************)
(* SpecBurst: a sharer sends a burst of frames and audio while the relay   *)
(* thread is held up, so that the queue passes its depth limit; then the   *)
(* relay thread runs.                                                      *)
(***************************************************************************)
BurstFrames == 63    \* messages the sharer sends in SpecBurst
FreeFrames == 3      \* the last of them are of any kind
AudioEvery == 8      \* before those, audio is the first of every AudioEvery messages

InitBurst == InitServer /\ NoFailures /\ g_update = FALSE /\ tap = Conns

\* The kinds the n-th message of the burst can have.
BurstKinds(n) ==
    IF n > BurstFrames - FreeFrames THEN {"K", "P", "A"}
    ELSE IF n % AudioEvery = 1 THEN {"A"} ELSE {"P"}

BurstMessage(id) ==
    /\ Sharing(id)
    /\ Len(produced[id]) < BurstFrames
    /\ \E kind \in BurstKinds(Len(produced[id]) + 1) :
          IF kind = "A" THEN client_read_loop_SCREEN_AUDIO(id)
                        ELSE client_read_loop_SCREEN_FRAME(id, kind = "K")
    /\ UNCHANGED c2s

\* The relay thread gets to run when the burst is over.
BurstOver == \A id \in Sharers : Len(produced[id]) = BurstFrames

NextBurst ==
    \/ \E c \in 1..RelayConns : tcp_accept(c)
    \/ ValidLogin
    \/ auth_login_verify
    \/ create_session
    \/ auth_setup
    \/ auth_send_resp
    \/ \E id \in Sharers : PeerScreenStart(id)
    \/ \E id \in 1..RelayConns, t \in Sharers :
          produced[t] = <<>> /\ PeerScreenSubscribe(id, t)
    \/ \E id \in Sharers : BurstMessage(id)
    \/ \E id \in 1..RelayConns : client_read_loop_enqueue_relay(id)
    \/ BurstOver /\ screen_relay_loop_drain
    \/ screen_relay_loop_audio
    \/ screen_relay_loop_video

SpecBurst == InitBurst /\ [][NextBurst]_vars

(***************************************************************************)
(* Claims checked under SpecBurst.                                         *)
(***************************************************************************)
\* The positions of the SCREEN_AUDIO messages among what sharer S sent.
RECURSIVE AudioOf(_, _)
AudioOf(sent, n) ==
    IF n > Len(sent) THEN <<>>
    ELSE (IF sent[n] = "A" THEN <<n>> ELSE <<>>) \o AudioOf(sent, n + 1)

AudioIn(items, S) ==
    LET a == SelectSeq(items, LAMBDA it : it.is_audio /\ it.sharer_id = S)
    IN  [k \in 1..Len(a) |-> a[k].data.seq]

\* The audio of S on its way: taken by the relay thread and not yet handed
\* to send_to_subscribers, in the queue, and in the hand of the read thread.
PendingAudio(S) ==
    AudioIn(relay.audio_items, S) \o AudioIn(g_relay_queue, S)
    \o (IF S \in DOMAIN rd /\ rd[S].pc = "enqueue" THEN AudioIn(<<rd[S].relay>>, S) ELSE <<>>)

IsSuffix(a, b) == Len(a) <= Len(b) /\ a = SubSeq(b, Len(b) - Len(a) + 1, Len(b))

\* C18: for every sharer S the audio on its way is, in order, the last part
\* of the audio S sent, and it gets shorter only at its head, by the relay
\* thread handing that item to send_to_subscribers: the relay drops and
\* reorders no audio, whatever the queue holds.
C18_AudioNeverDropped ==
    /\ [](\A S \in Conns : IsSuffix(PendingAudio(S), AudioOf(produced[S], 1)))
    /\ [][\A S \in Conns :
            \/ PendingAudio(S)' = PendingAudio(S)
            \/ /\ produced'[S] = Append(produced[S], "A")
               /\ PendingAudio(S)' = Append(PendingAudio(S), Len(produced'[S]))
            \/ /\ PendingAudio(S) # <<>>
               /\ PendingAudio(S)' = Tail(PendingAudio(S))
               /\ relay.audio_items # <<>>
               /\ Head(relay.audio_items).sharer_id = S
               /\ wire' = send_to_subscribers(wire, S, Head(relay.audio_items).data)
               /\ produced' = produced
       ]_vars

\* C18 witness: the queue went over its depth limit with audio in it, and the
\* relay thread has handed all audio of the burst to a subscriber.
C18_Witness ==
    \E S \in Sharers : \E R \in Present \ {S} :
        /\ Len(produced[S]) > RELAY_QUEUE_DEPTH
        /\ sub_at[<<R, S>>] = 0
        /\ R \in g_clients[S].screen_subscribers
        /\ PendingAudio(S) = <<>>
        /\ Len(AudioOf(produced[S], 1)) > 0
        /\ Len(SelectSeq(wire[g_clients[R].tls_socket], LAMBDA m : m.type = "SCREEN_AUDIO"))
              = Len(AudioOf(produced[S], 1))

(***************************************************************************)
(* SpecChatFile: peers log in and send TEXT_CHAT; the server process is    *)
(* stopped and started again.                                              *)
(***************************************************************************)
\* load_chat_history: the valid lines of the file, and the next seq.
load_chat_history(file) ==
    LET valid == SelectSeq(file, LAMBDA line : parse_chat_line(line).valid)
        seqs == {parse_chat_line(valid[k]).seq : k \in 1..Len(valid)}
    IN  [g_chat_history |-> [k \in 1..Len(valid) |->
                                [seq |-> parse_chat_line(valid[k]).seq,
                                 sender |-> parse_chat_line(valid[k]).sender]],
         g_next_seq |-> (IF seqs = {} THEN 0 ELSE Max(seqs)) + 1]

\* The process ends, wherever its threads are, and main() runs again: the
\* database and the history file are as they were left, everything in memory
\* is new and every connection is gone.
server_restart ==
    /\ g_clients' = <<>>
    /\ g_next_id' = 1
    /\ conn_state' = [c \in Conns |-> IF conn_state[c] = "none" THEN "none" ELSE "closed"]
    /\ g_rate_limits' = [ip \in Ips |-> [failures |-> 0, window_start |-> 0]]
    /\ acc' = AccIdle
    /\ rd' = <<>>
    /\ udp_rx' = NoDatagram
    /\ udp_tx' = <<>>
    /\ g_chat_history' = load_chat_history(chat_file).g_chat_history
    /\ g_next_seq' = load_chat_history(chat_file).g_next_seq
    /\ g_relay_queue' = <<>>
    /\ relay' = RelayIdle
    /\ produced' = [id \in Conns |-> <<>>]
    /\ sub_at' = [k \in Conns \X Conns |-> 0]
    /\ UNCHANGED <<g_update, g_running, wire, tap, dbVars, now, chat_file, clVars, histVars>>

InitChatFile == InitServer /\ NoFailures /\ g_update = FALSE /\ tap = {}

NextChatFile ==
    \/ \E c \in Conns : tcp_accept(c)
    \/ ValidLogin
    \/ auth_login_verify
    \/ create_session
    \/ auth_setup
    \/ auth_send_resp
    \/ \E id \in Conns : PeerChat(id)
    \/ \E id \in Conns : client_read_loop_append_chat_to_file(id)
    \/ \E id \in Conns : client_read_loop_chat_broadcast(id)
    \/ server_restart

SpecChatFile == InitChatFile /\ [][NextChatFile]_vars

(***************************************************************************)
(* Claims checked under SpecChatFile.                                      *)
(***************************************************************************)
\* C19: the lines of the history file are in strictly increasing seq order,
\* and the next seq the server assigns is greater than every seq in the
\* file.
C19_ChatFileMonotonic ==
    /\ \A k \in 1..Len(chat_file) : \A j \in 1..(k - 1) : chat_file[j].seq < chat_file[k].seq
    /\ \A k \in 1..Len(chat_file) : chat_file[k].seq < g_next_seq

(***************************************************************************)
(* The client's screen share and disconnect (client/screen_threads.cpp,    *)
(* client/h264_encoder.cpp, client/connection.cpp).                        *)
(***************************************************************************)
gop_size == 60       \* p->gop_size = fps * 2 at 30 fps

\* H264Encoder::encode on a texture.  The codec is taken at its best: it
\* codes the next input it is given as an IDR once ForceKeyFrame was set,
\* hands its outputs back in input order and marks every IDR with
\* MFSampleExtension_CleanPoint.  outcome is what the call meets: "no_input"
\* (a return before ProcessInput), "no_output" (a return after it) or
\* "output".
encode(enc, force_idr_arg, outcome) ==
    LET frame_count == enc.frame_count + 1
        force_idr == force_idr_arg \/ frame_count = 1
        set_value == enc.force_key_frame \/ force_idr
        counted == [enc EXCEPT !.frame_count = frame_count, !.force_key_frame = set_value]
        fed == [counted EXCEPT !.in_codec = Append(@, set_value), !.force_key_frame = FALSE]
        clean_point == Head(fed.in_codec)
        output_count == enc.output_count + 1
    IN  IF outcome = "no_input"
        THEN [enc |-> counted, output |-> FALSE, is_keyframe |-> FALSE]
        ELSE IF outcome = "no_output"
        THEN [enc |-> fed, output |-> FALSE, is_keyframe |-> FALSE]
        ELSE [enc |-> [fed EXCEPT !.in_codec = Tail(@), !.output_count = output_count],
              output |-> TRUE,
              is_keyframe |-> \/ clean_point
                              \/ output_count = 1
                              \/ output_count % gop_size = 1
                              \/ force_idr]

EncodeOutcomes == {"no_input", "no_output", "output"}

ScreenSendItem(is_keyframe, is_audio) == [key |-> is_keyframe, is_audio |-> is_audio]

\* Variant of has_pending_frame: the capture thread never finds a frame
\* pending.
has_pending_frame_never(queue) == FALSE

has_pending_frame(queue) == \E k \in 1..Len(queue) : ~queue[k].is_audio

\* "Share Screen": the flag, SCREEN_START and the threads.
ShareScreen(c) ==
    /\ cl[c].connected
    /\ ~cl[c].screen_sharing
    /\ cl[c].cap.pc = "none"
    /\ cl' = [cl EXCEPT ![c].screen_sharing = TRUE,
                        ![c].threads = @ \cup {"screen_send_thread", "screen_thread",
                                                "sys_audio_thread"},
                        ![c].enc = NoEncoder,
                        ![c].cap = [pc |-> "loop", is_keyframe |-> FALSE]]
    /\ c2s' = [c2s EXCEPT ![c] = send_tcp(cl[c], @, make_screen_start_msg)]
    /\ UNCHANGED <<regVars, netVars, dbVars, rateVars, acc, rd, udpVars, chatVars, relayVars,
                   histVars>>

\* screen_capture_thread_func, one turn of the loop up to the return of
\* encode: the backpressure skip, capture_texture (tex tells whether it
\* returned a texture), force_keyframe.exchange(false) and encode.
screen_capture_thread_func(c, tex, outcome) ==
    LET app == cl[c]
        r == encode(app.enc, app.force_keyframe, outcome)
    IN  /\ app.cap.pc = "loop"
        /\ IF ~(app.connected /\ app.screen_sharing)
           THEN cl' = [cl EXCEPT ![c].cap = NoCapture, ![c].enc = NoEncoder]
           ELSE IF has_pending_frame(app.screen_send_queue) \/ ~tex
           THEN UNCHANGED cl
           ELSE cl' = [cl EXCEPT ![c].force_keyframe = FALSE,
                                 ![c].enc = r.enc,
                                 ![c].cap = IF r.output
                                            THEN [pc |-> "push", is_keyframe |-> r.is_keyframe]
                                            ELSE @]
        /\ UNCHANGED <<regVars, netVars, dbVars, rateVars, acc, rd, udpVars, chatVars, relayVars,
                       c2s, histVars>>

\* The rest of the turn: make_screen_frame_msg and the push_back.
screen_capture_push(c) ==
    /\ cl[c].cap.pc = "push"
    /\ cl' = [cl EXCEPT ![c].screen_send_queue =
                            Append(@, ScreenSendItem(cl[c].cap.is_keyframe, FALSE)),
                        ![c].cap = [pc |-> "loop", is_keyframe |-> FALSE],
                        ![c].idr_owed = FALSE]
    /\ UNCHANGED <<regVars, netVars, dbVars, rateVars, acc, rd, udpVars, chatVars, relayVars,
                   c2s, histVars>>

\* screen_send_thread_func: swap the queue out, send every audio item, in
\* queue order, and then the newest video frame.
screen_send_thread_func(c) ==
    LET batch == cl[c].screen_send_queue
        video == {k \in 1..Len(batch) : ~batch[k].is_audio}
        audio == SelectSeq(batch, LAMBDA item : item.is_audio)
        audio_sent == IF cl[c].tcp
                      THEN c2s[c] \o [k \in 1..Len(audio) |-> make_screen_audio_msg]
                      ELSE c2s[c]
    IN  /\ cl[c].connected
        /\ cl[c].screen_sharing
        /\ batch # <<>>
        /\ cl' = [cl EXCEPT ![c].screen_send_queue = <<>>]
        /\ c2s' = [c2s EXCEPT ![c] =
                      IF video = {} THEN audio_sent
                      ELSE send_tcp(cl[c], audio_sent,
                                    make_screen_frame_msg(batch[Max(video)].key))]
        /\ UNCHANGED <<regVars, netVars, dbVars, rateVars, acc, rd, udpVars, chatVars, relayVars,
                       histVars>>

\* do_join_voice with audio devices that open.
do_join_voice(c) ==
    /\ cl[c].connected
    /\ ~cl[c].in_voice
    /\ cl' = [cl EXCEPT ![c].in_voice = TRUE,
                        ![c].threads = @ \cup {"send_thread", "udp_recv_thread", "playback_thread"}]
    /\ c2s' = [c2s EXCEPT ![c] = send_tcp(cl[c], @, make_voice_join_msg)]
    /\ UNCHANGED <<regVars, netVars, dbVars, rateVars, acc, rd, udpVars, chatVars, relayVars,
                   histVars>>

\* do_leave_voice; out is what the call has written to the TCP socket.
do_leave_voice(app, out) ==
    IF ~app.in_voice THEN [app |-> app, out |-> out]
    ELSE [app |-> [app EXCEPT !.in_voice = FALSE, !.jitter_buffers = <<>>,
                              !.threads = @ \ {"send_thread", "udp_recv_thread", "playback_thread"},
                              !.udp = app.connected],
          out |-> IF app.connected THEN send_tcp(app, out, make_voice_leave_msg) ELSE out]

\* do_disconnect after its first line.  The threads are joined, so the
\* capture thread and its encoder are gone when the queue is cleared.
Disconnect(app) ==
    LET left == do_leave_voice(app, <<>>)
        a == left.app
    IN  [app |-> add_system_msg(
                    [a EXCEPT !.pc = "closed", !.screen_sharing = FALSE, !.watching_user_id = 0,
                              !.connected = FALSE, !.auth_state = "DISCONNECTED",
                              !.threads = {}, !.tcp = FALSE, !.udp = FALSE,
                              !.screen_send_queue = <<>>, !.cap = NoCapture, !.enc = NoEncoder,
                              !.force_keyframe = FALSE, !.idr_owed = FALSE,
                              !.session_token = ZeroToken, !.users = <<>>,
                              !.jitter_buffers = <<>>],
                    "Disconnected."),
         out |-> IF a.connected THEN send_tcp(a, left.out, make_leave_msg) ELSE left.out]

\* Mutant: do_disconnect without its first line.
DoDisconnect_always(app) == Disconnect(app)

\* do_disconnect as a function of the client state: the state it leaves and
\* what it has written to the TCP socket.
DoDisconnect(app) ==
    IF ~app.connected /\ app.auth_state = "DISCONNECTED"
    THEN [app |-> app, out |-> <<>>]
    ELSE Disconnect(app)

\* The user disconnects; the UI thread is not inside a login call.
do_disconnect(c) ==
    /\ cl[c].pc \notin {"login_wait", "token_wait"}
    /\ cl' = [cl EXCEPT ![c] = DoDisconnect(cl[c]).app]
    /\ c2s' = [c2s EXCEPT ![c] = @ \o DoDisconnect(cl[c]).out]
    /\ UNCHANGED <<regVars, netVars, dbVars, rateVars, acc, rd, udpVars, chatVars, relayVars,
                   histVars>>

\* tcp_receive_thread when recv_all fails on a connection the server has
\* closed.  part = "header": nothing is left to read.  part = "payload": the
\* header of the next message was read and its payload was cut short; what
\* was written after it is lost with it.
tcp_receive_thread_recv_failed(c, part) ==
    /\ cl[c].pc = "running"
    /\ cl[c].connected
    /\ conn_state[c] = "closed"
    /\ IF part = "header"
       THEN /\ wire[c] = <<>>
            /\ cl' = [cl EXCEPT ![c] = [add_system_msg(@, "Disconnected from server.")
                                           EXCEPT !.connected = FALSE]]
            /\ UNCHANGED wire
       ELSE /\ wire[c] # <<>>
            /\ cl' = [cl EXCEPT ![c].connected = FALSE]
            /\ wire' = [wire EXCEPT ![c] = <<>>]
    /\ UNCHANGED <<regVars, conn_state, tap, dbVars, rateVars, acc, rd, udpVars, chatVars,
                   relayVars, c2s, histVars>>

\* do_login when recv_all fails on the response, header or payload: the
\* server has closed the connection.
do_login_recv_failed(c) ==
    /\ cl[c].pc = "login_wait"
    /\ conn_state[c] = "closed"
    /\ cl' = [cl EXCEPT ![c] = add_system_msg([@ EXCEPT !.auth_state = "CONNECTED_UNAUTH",
                                                        !.pc = "connected"],
                                              "Failed to receive login response.")]
    /\ wire' = [wire EXCEPT ![c] = <<>>]
    /\ UNCHANGED <<regVars, conn_state, tap, dbVars, rateVars, acc, rd, udpVars, chatVars,
                   relayVars, c2s, histVars>>

\* The frame matches no branch of the if / else-if chain: the loop goes on
\* to the next header.
client_read_loop_no_branch(id) ==
    /\ Reading(id)
    /\ UNCHANGED <<regVars, netVars, dbVars, rateVars, acc, rd, udpVars, chatVars, relayVars, cl,
                   histVars>>

\* The conditions of the chain: the type, and for some types the least
\* payload size.  No branch looks at how large the payload is.
HasBranch(m) ==
    \/ m.type \in {"LEAVE", "VOICE_JOIN", "VOICE_LEAVE", "SCREEN_START"}
    \/ m.type \in {"CHAT_SYNC", "SCREEN_FRAME"} /\ m.size # "short"

\* The read thread of id reads a frame its peer wrote, header and payload
\* (payload.resize(header.payload_len) whatever the length), and runs the
\* branch for it.
recv_client_message(id) ==
    LET c == g_clients[id].tls_socket
        m == Head(c2s[c])
    IN  /\ id \in Present
        /\ c2s[c] # <<>>
        /\ c2s' = [c2s EXCEPT ![c] = Tail(@)]
        /\ IF ~HasBranch(m) THEN client_read_loop_no_branch(id)
           ELSE CASE m.type = "CHAT_SYNC" -> client_read_loop_CHAT_SYNC(id, m.seq)
                  [] m.type = "LEAVE" -> client_read_loop_LEAVE(id)
                  [] m.type = "VOICE_JOIN" -> client_read_loop_VOICE_JOIN(id)
                  [] m.type = "VOICE_LEAVE" -> client_read_loop_VOICE_LEAVE(id)
                  [] m.type = "SCREEN_START" -> client_read_loop_SCREEN_START(id)
                  [] m.type = "SCREEN_FRAME" -> client_read_loop_SCREEN_FRAME(id, m.key)

\* The acceptor reads a frame in the auth loop that is longer than 4096
\* bytes or of a type that is no auth request: break, the connection is
\* closed and the acceptor goes back to accept().
AuthTypes == {"AUTH_REGISTER_REQ", "AUTH_LOGIN_REQ", "AUTH_TOKEN_LOGIN_REQ"}

auth_loop_break ==
    LET m == Head(c2s[acc.conn])
    IN  /\ acc.pc = "auth_loop"
        /\ c2s[acc.conn] # <<>>
        /\ m.size = "oversize" \/ m.type \notin AuthTypes
        /\ c2s' = [c2s EXCEPT ![acc.conn] = Tail(@)]
        /\ acc' = AccIdle
        /\ conn_state' = [conn_state EXCEPT ![acc.conn] = "closed"]
        /\ UNCHANGED <<regVars, wire, tap, dbVars, rateVars, rd, udpVars, chatVars, relayVars,
                       cl, histVars>>

(***************************************************************************)
(* SpecClient: the client of connection 1 logs in, joins voice, shares its *)
(* screen and disconnects; the peer of connection 2 logs in and subscribes *)
(* to it; the server is stopped and started again.                         *)
(***************************************************************************)
ClientConns == 2     \* connections accepted in SpecClient
MaxCaptures == 3     \* encode calls of one screen share

InitClient == InitServer /\ NoFailures /\ g_update = FALSE /\ tap = {1}

IsPeer(id) == id \in Present /\ g_clients[id].tls_socket \notin tap

NextClient ==
    \/ \E c \in 1..ClientConns : tcp_accept(c)
    \/ \E c \in tap : do_login(c, "alice", "passw0rd")
    \/ recv_auth_request
    \/ PeerLogin
    \/ auth_login_verify
    \/ create_session
    \/ auth_setup
    \/ auth_send_resp
    \/ \E c \in tap : do_login_response(c)
    \/ \E c \in tap : tcp_receive_thread(c)
    \/ \E c \in tap, part \in {"header", "payload"} : tcp_receive_thread_recv_failed(c, part)
    \/ \E c \in tap : do_login_recv_failed(c)
    \/ \E id \in Conns : recv_client_message(id)
    \/ \E id \in Conns : client_read_loop_chat_sync_entry(id)
    \/ \E id \in Conns : client_read_loop_enqueue_relay(id)
    \/ screen_relay_loop_drain
    \/ screen_relay_loop_video
    \/ \E id, t \in Conns : IsPeer(id) /\ PeerScreenSubscribe(id, t)
    \/ \E c \in tap : do_join_voice(c)
    \/ \E c \in tap : ShareScreen(c)
    \/ \E c \in tap, tex \in BOOLEAN, outcome \in EncodeOutcomes :
          /\ cl[c].enc.frame_count < MaxCaptures
          /\ screen_capture_thread_func(c, tex, outcome)
    \/ \E c \in tap : screen_capture_push(c)
    \/ \E c \in tap : screen_send_thread_func(c)
    \/ \E c \in tap : do_disconnect(c)
    \/ server_restart

SpecClient == InitClient /\ [][NextClient]_vars

(***************************************************************************)
(* Claims checked under SpecClient.                                        *)
(***************************************************************************)
\* C17: when a sharing client has received SCREEN_REQUEST_KEYFRAME, the next
\* SCREEN_FRAME it puts on its send queue has the IDR flag.
C17_NextFrameAfterRequestIsIDR ==
    [][\A c \in tap :
          (cl[c].idr_owed /\ Len(cl'[c].screen_send_queue) > Len(cl[c].screen_send_queue))
              => cl'[c].screen_send_queue[Len(cl'[c].screen_send_queue)].key]_vars

\* C20: do_disconnect called twice in a row leaves the client as one call
\* leaves it, and the second call writes nothing to the socket.
C20_DisconnectIdempotent ==
    \A c \in tap :
        LET once == DoDisconnect(cl[c])
            twice == DoDisconnect(once.app)
        IN  twice.app = once.app /\ twice.out = <<>>

\* do_disconnect has run on a client that was logged in, in voice and
\* sharing: LEAVE is on its way and the client is down.
C20_Witness ==
    /\ cl[1].auth_state = "DISCONNECTED"
    /\ ~cl[1].connected
    /\ cl[1].system_msgs # <<>>
    /\ cl[1].system_msgs[Len(cl[1].system_msgs)] = "Disconnected."
    /\ \E k \in 1..Len(c2s[1]) : c2s[1][k].type = "VOICE_LEAVE"
    /\ \E k \in 1..Len(c2s[1]) : c2s[1][k].type = "SCREEN_START"
    /\ c2s[1] # <<>> /\ c2s[1][Len(c2s[1])].type = "LEAVE"
    /\ DoDisconnect(cl[1]).app = cl[1]

\* C21: a transport error inside a client session leaves a system line in
\* the chat list and ends the session (connected cleared), and a transport
\* error during the login exchange ends with auth_state DISCONNECTED.
C21_TransportErrorEndsDisconnected ==
    [][\A c \in tap :
          /\ (\E part \in {"header", "payload"} : tcp_receive_thread_recv_failed(c, part))
                => /\ Len(cl'[c].system_msgs) > Len(cl[c].system_msgs)
                   /\ ~cl'[c].connected
          /\ do_login_recv_failed(c) => cl'[c].auth_state = "DISCONNECTED"]_vars

(***************************************************************************)
(* SpecFrames: peers connect, log in and write control frames, well formed *)
(* or not, in the auth handshake and in the session.                       *)
(***************************************************************************)
FrameConns == 2      \* connections accepted in SpecFrames
FrameVideo == 1      \* SCREEN_FRAME messages of one client in SpecFrames

Sized(type, size) == [Req(type) EXCEPT !.size = size]

\* Frames no handler accepts: too short for the type, of no known type, or
\* with a payload_len beyond any maximum.
BadFrames ==
    {Sized("CHAT_SYNC", "short"), Sized("SCREEN_SUBSCRIBE", "short"),
     Sized("SCREEN_FRAME", "short"), Sized("UNKNOWN", "ok"), Sized("UNKNOWN", "oversize"),
     Sized("CHAT_SYNC", "oversize"), Sized("SCREEN_FRAME", "oversize")}

GoodFrames ==
    {make_chat_sync_msg(0), make_voice_join_msg, make_screen_start_msg, make_leave_msg}

Malformed(m) == m.size # "ok" \/ m.type = "UNKNOWN"

InitFrames == InitServer /\ NoFailures /\ g_update = FALSE /\ tap = {}

\* The peer of an open connection writes a frame; what it wrote before has
\* been read.
PeerWrites(c, m) ==
    /\ conn_state[c] \in {"auth_loop", "client"}
    /\ c2s[c] = <<>>
    /\ m.type = "SCREEN_FRAME" =>
          \A id \in Present : g_clients[id].tls_socket = c => Len(produced[id]) < FrameVideo
    /\ c2s' = [c2s EXCEPT ![c] = <<m>>]
    /\ UNCHANGED <<regVars, netVars, dbVars, rateVars, acc, rd, udpVars, chatVars, relayVars, cl,
                   histVars>>

NextFrames ==
    \/ \E c \in 1..FrameConns : tcp_accept(c)
    \/ \E c \in 1..FrameConns, m \in BadFrames \cup GoodFrames : PeerWrites(c, m)
    \/ PeerLogin /\ c2s[acc.conn] = <<>>
    \/ auth_loop_break
    \/ auth_login_verify
    \/ create_session
    \/ auth_setup
    \/ auth_send_resp
    \/ \E id \in Conns : recv_client_message(id)
    \/ \E id \in Conns : client_read_loop_chat_sync_entry(id)
    \/ \E id \in Conns : client_read_loop_enqueue_relay(id)
    \/ screen_relay_loop_drain
    \/ screen_relay_loop_video

SpecFrames == InitFrames /\ [][NextFrames]_vars

(***************************************************************************)
(* Claims checked under SpecFrames.                                        *)
(***************************************************************************)
\* C22: a client whose read thread reads a malformed, unknown or oversize
\* frame is removed from the registry, and a connection whose auth
\* handshake reads an oversize or unknown frame is closed.
C22_MalformedFrameDisconnects ==
    [][/\ \A id \in Present :
             (recv_client_message(id) /\ Malformed(Head(c2s[g_clients[id].tls_socket])))
                 => id \notin DOMAIN g_clients'
       /\ (/\ acc.pc = "auth_loop"
           /\ c2s[acc.conn] # <<>>
           /\ c2s'[acc.conn] = <<>>
           /\ Malformed(Head(c2s[acc.conn])))
             => conn_state'[acc.conn] = "closed"]_vars

(***************************************************************************)
(* SpecStall: g_clients_mutex across the reads of client_read_loop.  A     *)
(* read thread at "recv_payload" is inside recv_all on the payload, with   *)
(* the lock_guard of main.cpp:641 alive.                                   *)
(***************************************************************************)
StallConns == 2      \* connections accepted in SpecStall

\* The read threads that hold g_clients_mutex across a recv_all.
MutexHolders == {id \in DOMAIN rd : rd[id].pc \in {"recv_header", "recv_payload"}}

MutexFree == MutexHolders = {}

\* A frame whose header has arrived and whose payload has not.
Stalled(type) == Sized(type, "stalled")

FrameWaiting(id) ==
    /\ id \in Present
    /\ c2s[g_clients[id].tls_socket] # <<>>
    /\ Head(c2s[g_clients[id].tls_socket]).size # "stalled"

\* The peer writes the five bytes of a header that announces a payload, and
\* nothing more for now.
PeerWritesHeader(c, type) ==
    /\ conn_state[c] = "client"
    /\ c2s[c] = <<>>
    /\ c2s' = [c2s EXCEPT ![c] = <<Stalled(type)>>]
    /\ UNCHANGED <<regVars, netVars, dbVars, rateVars, acc, rd, udpVars, chatVars, relayVars, cl,
                   histVars>>

\* The peer writes the payload it had announced.
PeerWritesPayload(c) ==
    /\ c2s[c] # <<>>
    /\ Head(c2s[c]).size = "stalled"
    /\ c2s' = [c2s EXCEPT ![c] = <<[Head(@) EXCEPT !.size = "ok"]>>]
    /\ UNCHANGED <<regVars, netVars, dbVars, rateVars, acc, rd, udpVars, chatVars, relayVars, cl,
                   histVars>>

\* client_read_loop: select() reports the socket readable, the header is
\* read, payload_len > 0: the thread locks g_clients_mutex and calls recv_all
\* for the payload, which has not arrived.
client_read_loop_recv_payload_wait(id) ==
    /\ Reading(id)
    /\ id \in Present
    /\ MutexFree
    /\ c2s[g_clients[id].tls_socket] # <<>>
    /\ Head(c2s[g_clients[id].tls_socket]).size = "stalled"
    /\ rd' = [rd EXCEPT ![id].pc = "recv_payload"]
    /\ UNCHANGED <<regVars, netVars, dbVars, rateVars, acc, udpVars, chatVars, relayVars, clVars,
                   histVars>>

\* recv_all returns with the payload; the lock_guard goes out of scope.
client_read_loop_recv_payload_done(id) ==
    /\ id \in DOMAIN rd
    /\ rd[id].pc = "recv_payload"
    /\ Head(c2s[g_clients[id].tls_socket]).size # "stalled"
    /\ rd' = [rd EXCEPT ![id].pc = "idle"]
    /\ UNCHANGED <<regVars, netVars, dbVars, rateVars, acc, udpVars, chatVars, relayVars, clVars,
                   histVars>>

InitStall == InitServer /\ NoFailures /\ g_update = FALSE /\ tap = {}

\* Every step that locks g_clients_mutex waits for it.
NextStall ==
    \/ \E c \in 1..StallConns : tcp_accept(c)
    \/ PeerLogin
    \/ auth_login_verify
    \/ create_session
    \/ MutexFree /\ auth_setup
    \/ MutexFree /\ auth_send_resp
    \/ \E c \in 1..StallConns, m \in {make_voice_join_msg, make_voice_leave_msg, make_leave_msg} :
          PeerWrites(c, m)
    \/ \E c \in 1..StallConns : PeerWritesHeader(c, "CHAT_SYNC")
    \/ \E c \in 1..StallConns : PeerWritesPayload(c)
    \/ \E id \in Conns : client_read_loop_recv_payload_wait(id)
    \/ \E id \in Conns : client_read_loop_recv_payload_done(id)
    \/ \E id \in Conns : MutexFree /\ FrameWaiting(id) /\ recv_client_message(id)
    \/ \E id \in Conns : MutexFree /\ client_read_loop_chat_sync_entry(id)

SpecStall == InitStall /\ [][NextStall]_vars

(***************************************************************************)
(* Claims checked under SpecStall.                                         *)
(***************************************************************************)
\* C23: no read thread is inside a blocking receive with g_clients_mutex
\* held while another client's frame waits to be read and dispatched.
C23_StallDoesNotBlockOthers ==
    \A id \in Present :
        (Reading(id) /\ FrameWaiting(id)) => MutexHolders \subseteq {id}

(***************************************************************************)
(* SpecShutdown: the server's loops after signal_handler clears g_running. *)
(* Each loop tests g_running at its head; the acceptor at "auth_loop" and  *)
(* a read thread at "recv_payload" are inside recv_all, which has no       *)
(* timeout (common/tls_socket.cpp sets none).                              *)
(***************************************************************************)
ShutConns == 2      \* connections accepted in SpecShutdown

\* signal_handler (server/main.cpp:32-34).
signal_handler ==
    /\ g_running
    /\ g_running' = FALSE
    /\ UNCHANGED <<g_clients, g_next_id, g_update, netVars, dbVars, rateVars, acc, rd, udpVars,
                   chatVars, relayVars, clVars, histVars>>

\* tcp_accept_loop: select() timed out or the iteration ended, g_running is
\* false at the head of the loop.
tcp_accept_loop_exit ==
    /\ acc.pc = "accept"
    /\ ~g_running
    /\ acc' = [AccIdle EXCEPT !.pc = "done"]
    /\ UNCHANGED <<regVars, netVars, dbVars, rateVars, rd, udpVars, chatVars, relayVars, clVars,
                   histVars>>

\* client_read_loop: g_running is false at the head of the loop; the thread
\* returns and leaves its entry in g_clients.
client_read_loop_exit(id) ==
    /\ Reading(id)
    /\ ~g_running
    /\ rd' = ThreadExit(id)
    /\ UNCHANGED <<regVars, netVars, dbVars, rateVars, acc, udpVars, chatVars, relayVars, clVars,
                   histVars>>

\* screen_relay_loop: wait_for returns, g_running is false and the queue is
\* empty.
screen_relay_loop_exit ==
    /\ relay.pc = "wait"
    /\ ~g_running
    /\ g_relay_queue = <<>>
    /\ relay' = [relay EXCEPT !.pc = "done"]
    /\ UNCHANGED <<regVars, netVars, dbVars, rateVars, acc, rd, udpVars, chatVars, g_relay_queue,
                   produced, sub_at, clVars, histVars>>

\* The steps of the acceptor thread and of the read thread of id.
AcceptorThread ==
    \/ auth_login_verify
    \/ create_session
    \/ MutexFree /\ auth_setup
    \/ MutexFree /\ auth_send_resp
    \/ tcp_accept_loop_exit

\* A thread at the head of its loop reads a frame only if g_running holds.
ReadThread(id) ==
    \/ g_running /\ client_read_loop_recv_payload_wait(id)
    \/ client_read_loop_recv_payload_done(id)
    \/ g_running /\ MutexFree /\ FrameWaiting(id) /\ recv_client_message(id)
    \/ MutexFree /\ client_read_loop_chat_sync_entry(id)
    \/ client_read_loop_exit(id)

InitShutdown == InitServer /\ NoFailures /\ g_update = FALSE /\ tap = {}

NextShutdown ==
    \/ \E c \in 1..ShutConns : g_running /\ tcp_accept(c)
    \/ PeerLogin
    \/ auth_loop_connection_lost
    \/ AcceptorThread
    \/ \E c \in 1..ShutConns : PeerWrites(c, make_voice_join_msg)
    \/ \E c \in 1..ShutConns : PeerWritesHeader(c, "CHAT_SYNC")
    \/ \E c \in 1..ShutConns : PeerWritesPayload(c)
    \/ \E id \in Conns : ReadThread(id)
    \/ signal_handler
    \/ screen_relay_loop_exit

\* The threads are scheduled; the peers and the operator owe nothing.
SpecShutdown ==
    /\ InitShutdown
    /\ [][NextShutdown]_vars
    /\ WF_vars(AcceptorThread)
    /\ \A id \in Conns : WF_vars(ReadThread(id))
    /\ WF_vars(screen_relay_loop_exit)

(***************************************************************************)
(* Claims checked under SpecShutdown.                                      *)
(***************************************************************************)
ServerStopped ==
    /\ acc.pc = "done"
    /\ DOMAIN rd = {}
    /\ relay.pc = "done"

\* C24: once g_running is cleared, the acceptor, every read thread and the
\* relay thread terminate, whatever the peers do.
C24_ShutdownTerminates == (~g_running) ~> ServerStopped

(***************************************************************************)
(* SpecCodec: the chat record codec of common/chat_persistence.h, character *)
(* by character.  A string is a sequence of characters; DQ, BS, LF, CR and  *)
(* TAB name the characters that json_escape treats, every other character   *)
(* is written as itself.  Integers stay far inside int64.                   *)
(***************************************************************************)
DQ == "dq"       \* '"'
BS == "bs"       \* '\\'
LF == "lf"       \* '\n'
CR == "cr"       \* '\r'
TAB == "tab"     \* '\t'

MaxLen == 3      \* length of the enumerated texts

\* The variant that leaves '"' as it is.
EscapeChar_quote(c) ==
    CASE c = BS -> <<BS, BS>>
      [] c = LF -> <<BS, "n">>
      [] c = CR -> <<BS, "r">>
      [] c = TAB -> <<BS, "t">>
      [] OTHER -> <<c>>

EscapeChar(c) ==
    CASE c = DQ -> <<BS, DQ>>
      [] c = BS -> <<BS, BS>>
      [] c = LF -> <<BS, "n">>
      [] c = CR -> <<BS, "r">>
      [] c = TAB -> <<BS, "t">>
      [] OTHER -> <<c>>

RECURSIVE json_escape(_)
json_escape(s) ==
    IF s = <<>> THEN <<>> ELSE EscapeChar(Head(s)) \o json_escape(Tail(s))

RECURSIVE json_unescape(_)
json_unescape(s) ==
    IF s = <<>> THEN <<>>
    ELSE IF s[1] = BS /\ Len(s) >= 2
         THEN CASE s[2] = DQ -> <<DQ>> \o json_unescape(SubSeq(s, 3, Len(s)))
                [] s[2] = BS -> <<BS>> \o json_unescape(SubSeq(s, 3, Len(s)))
                [] s[2] = "n" -> <<LF>> \o json_unescape(SubSeq(s, 3, Len(s)))
                [] s[2] = "r" -> <<CR>> \o json_unescape(SubSeq(s, 3, Len(s)))
                [] s[2] = "t" -> <<TAB>> \o json_unescape(SubSeq(s, 3, Len(s)))
                [] OTHER -> <<s[1]>> \o json_unescape(Tail(s))
         ELSE <<s[1]>> \o json_unescape(Tail(s))

DigitChars == <<"0", "1", "2", "3", "4", "5", "6", "7", "8", "9">>

IsDigit(c) == \E d \in 1..10 : DigitChars[d] = c

DigitVal(c) == (CHOOSE d \in 1..10 : DigitChars[d] = c) - 1

\* operator<< of an unsigned and of a signed integer.
RECURSIVE Decimal(_)
Decimal(n) ==
    IF n < 10 THEN <<DigitChars[n + 1]>> ELSE Decimal(n \div 10) \o <<DigitChars[(n % 10) + 1]>>

SignedDecimal(n) == IF n < 0 THEN <<"-">> \o Decimal(0 - n) ELSE Decimal(n)

serialize_chat_line_chars(seq, sender, timestamp, text) ==
    <<"{", DQ, "s", "e", "q", DQ, ":">> \o Decimal(seq)
    \o <<",", DQ, "s", "e", "n", "d", "e", "r", DQ, ":", DQ>> \o json_escape(sender) \o <<DQ>>
    \o <<",", DQ, "t", "s", DQ, ":">> \o SignedDecimal(timestamp)
    \o <<",", DQ, "t", "e", "x", "t", DQ, ":", DQ>> \o json_escape(text) \o <<DQ, "}">>

\* std::string::find: the first position where needle starts, 0 for npos.
Find(line, needle) ==
    LET at == {p \in 1..(Len(line) - Len(needle) + 1) :
                  SubSeq(line, p, p + Len(needle) - 1) = needle}
    IN  IF at = {} THEN 0 ELSE CHOOSE p \in at : \A q \in at : p <= q

\* The loop of extract_json_string from position i.
RECURSIVE QuotedFrom(_, _)
QuotedFrom(line, i) ==
    IF i > Len(line) THEN <<>>
    ELSE IF line[i] = BS /\ i + 1 <= Len(line)
         THEN <<line[i], line[i + 1]>> \o QuotedFrom(line, i + 2)
         ELSE IF line[i] = DQ THEN <<>> ELSE <<line[i]>> \o QuotedFrom(line, i + 1)

extract_json_string(line, key) ==
    LET needle == <<DQ>> \o key \o <<DQ, ":", DQ>>
        pos == Find(line, needle)
    IN  IF pos = 0 THEN <<>> ELSE json_unescape(QuotedFrom(line, pos + Len(needle)))

RECURSIVE SkipBlanks(_, _)
SkipBlanks(line, i) ==
    IF i <= Len(line) /\ line[i] \in {" ", TAB} THEN SkipBlanks(line, i + 1) ELSE i

RECURSIVE DigitsFrom(_, _, _)
DigitsFrom(line, i, val) ==
    IF i <= Len(line) /\ IsDigit(line[i])
    THEN DigitsFrom(line, i + 1, val * 10 + DigitVal(line[i]))
    ELSE val

extract_json_int(line, key) ==
    LET needle == <<DQ>> \o key \o <<DQ, ":">>
        pos == Find(line, needle)
        start == SkipBlanks(line, pos + Len(needle))
        neg == start <= Len(line) /\ line[start] = "-"
        val == DigitsFrom(line, IF neg THEN start + 1 ELSE start, 0)
    IN  IF pos = 0 THEN 0 ELSE IF neg THEN 0 - val ELSE val

ChatLine == [seq |-> 0, sender |-> <<>>, timestamp |-> 0, text |-> <<>>, valid |-> FALSE]

parse_chat_line_chars(line) ==
    IF line = <<>> \/ line[1] # "{" THEN ChatLine
    ELSE [seq |-> extract_json_int(line, <<"s", "e", "q">>),
          sender |-> extract_json_string(line, <<"s", "e", "n", "d", "e", "r">>),
          timestamp |-> extract_json_int(line, <<"t", "s">>),
          text |-> extract_json_string(line, <<"t", "e", "x", "t">>),
          valid |-> extract_json_int(line, <<"s", "e", "q">>) > 0]

\* The inputs: every string over CodecChars up to MaxLen, and fragments that
\* look like the keys and delimiters of a line.
CodecChars == {DQ, BS, LF, CR, TAB, "n", "a"}

StringsUpTo(n) == UNION {[1..k -> CodecChars] : k \in 0..n}

KeyLike ==
    { <<DQ, "t", "e", "x", "t", DQ, ":", DQ>>,
      <<DQ, "t", "s", DQ, ":", "9">>,
      <<DQ, "s", "e", "q", DQ, ":", "7">>,
      <<DQ, ",", DQ, "t", "e", "x", "t", DQ, ":", DQ, "a">>,
      <<BS, DQ, ",", DQ, "s", "e", "n", "d", "e", "r", DQ, ":", DQ>>,
      <<"a", DQ, "}">>,
      <<"{", BS>> }

CodecTexts == StringsUpTo(MaxLen) \cup KeyLike
CodecSenders == StringsUpTo(1) \cup KeyLike
CodecSeqs == {1, 305}
CodecTimes == {0 - 7, 1700}

\* The chat handler with the record r: the entry goes to g_chat_history and
\* its line to the file.
append_chat_chars(seq, sender, timestamp, text) ==
    /\ chat_file = <<>>
    /\ g_chat_history' = <<[seq |-> seq, sender |-> sender, timestamp |-> timestamp,
                            text |-> text]>>
    /\ chat_file' = <<serialize_chat_line_chars(seq, sender, timestamp, text)>>
    /\ UNCHANGED <<regVars, netVars, dbVars, rateVars, acc, rd, udpVars, g_next_seq, relayVars,
                   clVars, histVars>>

\* load_chat_history, line by line: the valid lines become the history.
load_chat_chars ==
    /\ chat_file # <<>>
    /\ g_chat_history' =
          LET valid == SelectSeq(chat_file, LAMBDA line : parse_chat_line_chars(line).valid)
          IN  [k \in 1..Len(valid) |->
                  [seq |-> parse_chat_line_chars(valid[k]).seq,
                   sender |-> parse_chat_line_chars(valid[k]).sender,
                   timestamp |-> parse_chat_line_chars(valid[k]).timestamp,
                   text |-> parse_chat_line_chars(valid[k]).text]]
    /\ UNCHANGED <<regVars, netVars, dbVars, rateVars, acc, rd, udpVars, g_next_seq, chat_file,
                   relayVars, clVars, histVars>>

InitCodec == InitServer /\ NoFailures /\ g_update = FALSE /\ tap = {}

NextCodec ==
    \/ \E seq \in CodecSeqs, sender \in CodecSenders, timestamp \in CodecTimes,
          text \in CodecTexts : append_chat_chars(seq, sender, timestamp, text)
    \/ load_chat_chars

SpecCodec == InitCodec /\ [][NextCodec]_vars

(***************************************************************************)
(* Claims checked under SpecCodec.                                         *)
(***************************************************************************)
\* C25: the line written for a record parses back to that record, valid,
\* and holds no raw newline.
C25_CodecRoundTrip ==
    /\ Len(chat_file) = Len(g_chat_history)
    /\ \A k \in 1..Len(chat_file) :
          /\ parse_chat_line_chars(chat_file[k]) =
                [seq |-> g_chat_history[k].seq, sender |-> g_chat_history[k].sender,
                 timestamp |-> g_chat_history[k].timestamp, text |-> g_chat_history[k].text,
                 valid |-> TRUE]
          /\ \A i \in 1..Len(chat_file[k]) : chat_file[k][i] # LF

\* A record whose text is the fragment "text":" and whose sender ends in a
\* backslash has been written.
C25_Witness ==
    /\ Len(chat_file) = 1
    /\ g_chat_history[1].text = <<DQ, "t", "e", "x", "t", DQ, ":", DQ>>
    /\ g_chat_history[1].sender = <<"{", BS>>

(***************************************************************************)
(* SpecJitter: the per-peer jitter buffers of the client                   *)
(* (client/app_state.h:93-98, client/network_threads.cpp:325-426).  A      *)
(* decoded frame is named by the number of the packet it came in.          *)
(***************************************************************************)
MAX_DEPTH == 4
PRE_BUFFER == 2

JitterConns == 2     \* connections accepted in SpecJitter
MaxPackets == 6      \* voice packets the tapped client receives

JitterBuffer == [frames |-> <<>>, primed |-> FALSE]

\* Variant: the newest frame is dropped when the buffer is full.
DiscardOldest_newest(frames) ==
    IF Len(frames) > MAX_DEPTH THEN SubSeq(frames, 1, MAX_DEPTH) ELSE frames

\* while (jb.frames.size() > MAX_DEPTH) jb.frames.pop_front();
RECURSIVE DiscardOldest(_)
DiscardOldest(frames) ==
    IF Len(frames) > MAX_DEPTH THEN DiscardOldest(Tail(frames)) ELSE frames

\* udp_receive_thread_func: one packet of client_id uid, decoded to pcm.
udp_receive_thread_func(c, uid, pcm) ==
    LET jbs == cl[c].jitter_buffers
        jb == IF uid \in DOMAIN jbs THEN jbs[uid] ELSE JitterBuffer
        pushed == [jb EXCEPT !.frames = DiscardOldest(Append(@, pcm))]
    IN  /\ cl[c].connected
        /\ cl[c].in_voice
        /\ cl' = [cl EXCEPT ![c].jitter_buffers =
                                 [u \in DOMAIN jbs \cup {uid} |-> IF u = uid THEN pushed ELSE jbs[u]],
                            ![c].voice_rx = @ + 1]
        /\ UNCHANGED <<regVars, netVars, dbVars, rateVars, acc, rd, udpVars, chatVars, relayVars,
                       c2s, histVars>>

\* What a buffer gives to the mix in one cycle: nothing, a decoded frame or
\* the frame decode_plc makes.
NoPcm == [kind |-> "none", frame |-> 0]
Plc == [kind |-> "plc", frame |-> 0]
Pcm(frame) == [kind |-> "frame", frame |-> frame]

\* Variant: playback starts with the first frame.
JitterPop_eager(jb) ==
    IF jb.frames # <<>>
    THEN [jb |-> [frames |-> Tail(jb.frames), primed |-> TRUE], pcm |-> Pcm(Head(jb.frames))]
    ELSE [jb |-> jb, pcm |-> NoPcm]

\* The body of the loop of audio_playback_thread_func for one buffer: the
\* buffer it leaves and its contribution to the mix.  A buffer has a
\* decoder: both maps are filled and cleared together.
JitterPop(jb) ==
    IF ~jb.primed /\ Len(jb.frames) < PRE_BUFFER
    THEN [jb |-> jb, pcm |-> NoPcm]
    ELSE IF jb.frames # <<>>
         THEN [jb |-> [frames |-> Tail(jb.frames), primed |-> TRUE],
               pcm |-> Pcm(Head(jb.frames))]
         ELSE [jb |-> [frames |-> <<>>, primed |-> FALSE], pcm |-> Plc]

\* audio_playback_thread_func: one cycle, under jitter_mutex.
audio_playback_thread_func(c) ==
    LET jbs == cl[c].jitter_buffers
    IN  /\ cl[c].connected
        /\ cl[c].in_voice
        /\ cl' = [cl EXCEPT ![c].jitter_buffers = [u \in DOMAIN jbs |-> JitterPop(jbs[u]).jb],
                            ![c].mixed = [u \in DOMAIN jbs |-> JitterPop(jbs[u]).pcm]]
        /\ UNCHANGED <<regVars, netVars, dbVars, rateVars, acc, rd, udpVars, chatVars, relayVars,
                       c2s, histVars>>

InitJitter == InitServer /\ NoFailures /\ g_update = FALSE /\ tap = {1}

NextJitter ==
    \/ \E c \in 1..JitterConns : tcp_accept(c)
    \/ \E c \in tap : do_login(c, "alice", "passw0rd")
    \/ recv_auth_request
    \/ PeerLogin
    \/ auth_login_verify
    \/ create_session
    \/ auth_setup
    \/ auth_send_resp
    \/ \E c \in tap : do_login_response(c)
    \/ \E c \in tap : tcp_receive_thread(c)
    \/ \E c \in tap : do_join_voice(c)
    \/ \E c \in 1..JitterConns \ tap, m \in {make_voice_join_msg, make_voice_leave_msg, make_leave_msg} :
          /\ \A t \in tap : wire[t] = <<>>
          /\ PeerWrites(c, m)
    \/ \E id \in Conns : recv_client_message(id)
    \/ \E id \in Conns : client_read_loop_chat_sync_entry(id)
    \/ \E c \in tap, uid \in Present :
          /\ cl[c].voice_rx < MaxPackets
          /\ g_clients[uid].in_voice
          /\ udp_receive_thread_func(c, uid, cl[c].voice_rx + 1)
    \/ \E c \in tap : audio_playback_thread_func(c)

SpecJitter == InitJitter /\ [][NextJitter]_vars

(***************************************************************************)
(* Claims checked under SpecJitter.                                        *)
(***************************************************************************)
FramesOf(app, uid) ==
    IF uid \in DOMAIN app.jitter_buffers THEN app.jitter_buffers[uid].frames ELSE <<>>

\* C26: when the client, in voice, reads VOICE_LEFT or USER_LEFT for a peer,
\* jitter_buffers has no entry for that peer afterwards.
C26_LeftPeerBufferRemoved ==
    [][\A c \in tap :
          (/\ tcp_receive_thread(c)
           /\ Head(wire[c]).type \in {"VOICE_LEFT", "USER_LEFT"}
           /\ cl[c].in_voice)
              => Head(wire[c]).id \notin DOMAIN cl'[c].jitter_buffers]_vars

\* C27: a push leaves at most MAX_DEPTH frames in the buffer: the frames it
\* held and the new one, less the oldest when that makes MAX_DEPTH + 1.
C27_JitterCap ==
    [][\A c \in tap, uid \in 1..JitterConns :
          udp_receive_thread_func(c, uid, cl[c].voice_rx + 1)
              => LET old == FramesOf(cl[c], uid)
                     new == FramesOf(cl'[c], uid)
                 IN  /\ Len(new) <= MAX_DEPTH
                     /\ new = IF Len(old) = MAX_DEPTH
                              THEN Tail(old) \o <<cl[c].voice_rx + 1>>
                              ELSE old \o <<cl[c].voice_rx + 1>>]_vars

\* A push has discarded the oldest frame of a full buffer.
C27_Witness ==
    \E c \in tap, uid \in 1..JitterConns :
        /\ Len(FramesOf(cl[c], uid)) = MAX_DEPTH
        /\ FramesOf(cl[c], uid) = <<2, 3, 4, 5>>

\* C28: one playback cycle, for every buffer: not primed with fewer than
\* PRE_BUFFER frames gives nothing and stays not primed; not primed with
\* PRE_BUFFER frames or more becomes primed; primed and not empty gives the
\* front frame and pops it; primed and empty gives one PLC frame and clears
\* primed.
C28_JitterPop ==
    [][\A c \in tap :
          audio_playback_thread_func(c)
              => \A u \in DOMAIN cl[c].jitter_buffers :
                     LET jb == cl[c].jitter_buffers[u]
                         after == cl'[c].jitter_buffers[u]
                         pcm == cl'[c].mixed[u]
                     IN  /\ (~jb.primed /\ Len(jb.frames) < PRE_BUFFER)
                               => (pcm = NoPcm /\ after = jb)
                         /\ (~jb.primed /\ Len(jb.frames) >= PRE_BUFFER) => after.primed
                         /\ (jb.primed /\ jb.frames # <<>>)
                               => /\ pcm = Pcm(Head(jb.frames))
                                  /\ after.frames = Tail(jb.frames)
                                  /\ after.primed
                         /\ (jb.primed /\ jb.frames = <<>>)
                               => (pcm = Plc /\ after = [frames |-> <<>>, primed |-> FALSE])]_vars

\* A cycle has found a primed buffer empty: it gave a PLC frame and the
\* buffer is not primed any more.
C28_Witness ==
    \E c \in tap, u \in 1..JitterConns :
        /\ u \in DOMAIN cl[c].jitter_buffers
        /\ u \in DOMAIN cl[c].mixed
        /\ cl[c].mixed[u] = Plc
        /\ cl[c].jitter_buffers[u] = JitterBuffer

(***************************************************************************)
(* SpecSync: CHAT_SYNC against a history that other clients extend.  Every *)
(* stream is recorded and no peer reads, so wire holds all that was sent.  *)
(***************************************************************************)
SyncConns == 2       \* connections accepted in SpecSync
MaxHistory == 3      \* chat entries written in SpecSync

\* The seqs of the replayed entries in a stream: CHAT_SYNC replays with
\* sender id 0, a live broadcast carries the id of its sender.
RECURSIVE SyncReplies(_)
SyncReplies(stream) ==
    IF stream = <<>> THEN <<>>
    ELSE IF Head(stream).type = "TEXT_CHAT" /\ Head(stream).id = 0
         THEN <<Head(stream).seq>> \o SyncReplies(Tail(stream))
         ELSE SyncReplies(Tail(stream))

\* The seqs of the entries of history above last_seq, in history order.
RECURSIVE NewerThan(_, _)
NewerThan(history, last_seq) ==
    IF history = <<>> THEN <<>>
    ELSE IF Head(history).seq > last_seq
         THEN <<Head(history).seq>> \o NewerThan(Tail(history), last_seq)
         ELSE NewerThan(Tail(history), last_seq)

\* A peer sends a line of chat.
SyncChat(id) ==
    /\ g_next_seq <= MaxHistory
    /\ id \in Present
    /\ client_read_loop_TEXT_CHAT(id)
    /\ UNCHANGED c2s

\* A peer that has had no replay yet sends CHAT_SYNC(last_seq).
PeerSync(id, last_seq) ==
    /\ id \in Present
    /\ SyncReplies(wire[g_clients[id].tls_socket]) = <<>>
    /\ client_read_loop_CHAT_SYNC(id, last_seq)
    /\ UNCHANGED c2s

InitSync == InitServer /\ NoFailures /\ g_update = FALSE /\ tap = Conns

NextSync ==
    \/ \E c \in 1..SyncConns : tcp_accept(c)
    \/ ValidLogin
    \/ auth_login_verify
    \/ create_session
    \/ auth_setup
    \/ auth_send_resp
    \/ \E id \in 1..SyncConns : SyncChat(id)
    \/ \E id \in 1..SyncConns : client_read_loop_append_chat_to_file(id)
    \/ \E id \in 1..SyncConns : client_read_loop_chat_broadcast(id)
    \/ \E id \in 1..SyncConns, last_seq \in 0..MaxHistory : PeerSync(id, last_seq)
    \/ \E id \in 1..SyncConns : client_read_loop_chat_sync_entry(id)

SpecSync == InitSync /\ [][NextSync]_vars

(***************************************************************************)
(* Claims checked under SpecSync.                                          *)
(***************************************************************************)
\* C29: a CHAT_SYNC(last_seq) writes to the requesting client only, and when
\* its loop ends the client has been sent exactly the entries of the history
\* with seq > last_seq, once each, in history order.
C29_ChatSyncReplay ==
    [][\A id \in 1..SyncConns :
          client_read_loop_chat_sync_entry(id)
              => /\ \A c \in Conns \ {g_clients[id].tls_socket} : wire'[c] = wire[c]
                 /\ rd'[id].pc = "idle"
                       => SyncReplies(wire'[g_clients[id].tls_socket])
                              = NewerThan(g_chat_history, rd[id].seq)]_vars

\* A replay of two entries out of three has ended.
C29_Witness ==
    \E id \in Present :
        /\ Reading(id)
        /\ Len(g_chat_history) = MaxHistory
        /\ SyncReplies(wire[g_clients[id].tls_socket]) = <<2, 3>>

(***************************************************************************)
(* SpecDrain: two clients share, subscribe to each other and send frames   *)
(* and audio; the relay thread drains batches that hold items of both.     *)
(***************************************************************************)
DrainConns == 2      \* connections accepted in SpecDrain, all of them sharers
DrainFrames == 2     \* SCREEN_FRAME and SCREEN_AUDIO messages each sharer sends

DrainMessage(id) ==
    /\ Sharing(id)
    /\ Len(produced[id]) < DrainFrames
    /\ \/ client_read_loop_SCREEN_AUDIO(id)
       \/ client_read_loop_SCREEN_FRAME(id, FALSE)
    /\ UNCHANGED c2s

InitDrain == InitServer /\ NoFailures /\ g_update = FALSE /\ tap = Conns

NextDrain ==
    \/ \E c \in 1..DrainConns : tcp_accept(c)
    \/ ValidLogin
    \/ auth_login_verify
    \/ create_session
    \/ auth_setup
    \/ auth_send_resp
    \/ \E id \in 1..DrainConns : Present = 1..DrainConns /\ PeerScreenStart(id)
    \/ \E id, t \in 1..DrainConns : produced[t] = <<>> /\ PeerScreenSubscribe(id, t)
    \/ \E id \in 1..DrainConns : DrainMessage(id)
    \/ \E id \in 1..DrainConns : client_read_loop_enqueue_relay(id)
    \/ screen_relay_loop_drain
    \/ screen_relay_loop_audio
    \/ screen_relay_loop_video

SpecDrain == InitDrain /\ [][NextDrain]_vars

(***************************************************************************)
(* Claims checked under SpecDrain.                                         *)
(***************************************************************************)
\* The video item of sharer id that was enqueued last, in a batch that has one.
RECURSIVE LastVideoOf(_, _)
LastVideoOf(frame_items, id) ==
    IF frame_items[Len(frame_items)].sharer_id = id
    THEN frame_items[Len(frame_items)]
    ELSE LastVideoOf(SubSeq(frame_items, 1, Len(frame_items) - 1), id)

\* The connections of the subscribers of sharer id that are present.
SubscriberConns(id) ==
    IF id \in Present
    THEN {g_clients[s].tls_socket : s \in g_clients[id].screen_subscribers \cap Present}
    ELSE {}

RejoinConns == 2     \* connections accepted in SpecRejoin
PeerAddr == MaxAddrs + 1

\* The user clicks "Leave voice": do_leave_voice, and the address of the
\* socket it creates.
do_leave_voice_call(c, addr) ==
    /\ cl[c].in_voice
    /\ cl' = [cl EXCEPT ![c] = [do_leave_voice(cl[c], <<>>).app EXCEPT
                                   !.udp_addr = IF cl[c].connected THEN addr ELSE @]]
    /\ c2s' = [c2s EXCEPT ![c] = @ \o do_leave_voice(cl[c], <<>>).out]
    /\ UNCHANGED <<regVars, netVars, dbVars, rateVars, acc, rd, udpVars, chatVars, relayVars,
                   histVars>>

\* voice_send_thread: one packet of the client, from its socket, and what
\* the server's UDP loop does with it.
voice_send_thread(c) ==
    /\ cl[c].connected
    /\ cl[c].in_voice
    /\ udp_relay_loop([src |-> cl[c].udp_addr, len |-> VOICE_HEADER_SIZE, id |-> cl[c].my_id,
                       data |-> "opus"])

\* A peer in voice sends a packet from its socket.
PeerVoice(id) ==
    /\ IsPeer(id)
    /\ g_clients[id].in_voice
    /\ udp_relay_loop([src |-> PeerAddr, len |-> VOICE_HEADER_SIZE, id |-> id, data |-> "opus"])

\* The user acts when the client has nothing unread and nothing unsent.
Settled(c) == wire[c] = <<>> /\ c2s[c] = <<>>

InitRejoin == InitServer /\ NoFailures /\ g_update = FALSE /\ tap = {1}

NextRejoin ==
    \/ \E c \in 1..RejoinConns : tcp_accept(c)
    \/ \E c \in tap : do_login(c, "alice", "passw0rd")
    \/ recv_auth_request
    \/ PeerLogin
    \/ auth_login_verify
    \/ create_session
    \/ auth_setup
    \/ auth_send_resp
    \/ \E c \in tap : do_login_response(c)
    \/ \E c \in tap : tcp_receive_thread(c)
    \/ \E c \in tap : Settled(c) /\ do_join_voice(c)
    \/ \E c \in tap, addr \in Addrs : Settled(c) /\ do_leave_voice_call(c, addr)
    \/ \E c \in tap : voice_send_thread(c)
    \/ \E c \in 1..RejoinConns \ tap : (\A t \in tap : wire[t] = <<>>) /\ PeerWrites(c, make_voice_join_msg)
    \/ \E id \in Conns : PeerVoice(id)
    \/ \E id \in Conns : recv_client_message(id)
    \/ \E id \in Conns : client_read_loop_chat_sync_entry(id)

SpecRejoin == InitRejoin /\ [][NextRejoin]_vars

(***************************************************************************)
(* Claims checked under SpecRejoin.                                        *)
(***************************************************************************)
\* C31: a voice datagram the server forwards to a client that is in voice
\* goes to the address of that client's current UDP socket.
C31_VoiceForwardedToCurrentSocket ==
    [][udp_tx' # udp_tx
          => \A i \in 1..Len(udp_tx') : \A c \in tap :
                 (cl[c].in_voice /\ udp_tx'[i].cid = cl[c].my_id)
                     => udp_tx'[i].to = cl[c].udp_addr]_vars

(***************************************************************************)
(* SpecMutex: the lock_guard objects of client_read_loop.  A thread at     *)
(* "recv_header" or "recv_payload" holds g_clients_mutex; every other      *)
(* critical section is one step taken while the mutex is free.             *)
(***************************************************************************)
MutexConns == 2

\* The peer closes its connection: the socket becomes readable and the next
\* recv_all on it fails.
PeerCloses(c) ==
    /\ conn_state[c] = "client"
    /\ c2s[c] = <<>>
    /\ conn_state' = [conn_state EXCEPT ![c] = "reset"]
    /\ UNCHANGED <<regVars, wire, tap, dbVars, rateVars, acc, rd, udpVars, chatVars, relayVars,
                   clVars, histVars>>

\* client_read_loop: select() reports the socket readable; the thread locks
\* g_clients_mutex and calls recv_all for the header.
client_read_loop_recv_header(id) ==
    /\ Reading(id)
    /\ id \in Present
    /\ MutexFree
    /\ conn_state[g_clients[id].tls_socket] = "reset"
    /\ rd' = [rd EXCEPT ![id].pc = "recv_header"]
    /\ UNCHANGED <<regVars, netVars, dbVars, rateVars, acc, udpVars, chatVars, relayVars, clVars,
                   histVars>>

\* recv_all fails: lock.~lock_guard() unlocks the mutex.
client_read_loop_recv_failed_unlock(id) ==
    /\ id \in DOMAIN rd
    /\ rd[id].pc \in {"recv_header", "recv_header_unlocked"}
    /\ rd' = [rd EXCEPT ![id].pc = "remove_client"]
    /\ UNCHANGED <<regVars, netVars, dbVars, rateVars, acc, udpVars, chatVars, relayVars, clVars,
                   histVars>>

\* remove_client(id), a critical section of its own.
client_read_loop_recv_failed_remove(id) ==
    /\ id \in DOMAIN rd
    /\ rd[id].pc = "remove_client"
    /\ MutexFree
    /\ remove_client(id)
    /\ rd' = [rd EXCEPT ![id].pc = "return"]
    /\ UNCHANGED <<dbVars, rateVars, acc, udpVars, chatVars, relayVars, clVars, histVars>>

\* return: the scope of the lock_guard ends and its destructor runs a second
\* time, unlocking g_clients_mutex once more.  The behaviour is undefined:
\* the mutex of a thread that holds it at that moment is released under it,
\* or is not.
client_read_loop_recv_failed_return(id) ==
    /\ id \in DOMAIN rd
    /\ rd[id].pc = "return"
    /\ \/ rd' = ThreadExit(id)
       \/ \E h \in MutexHolders :
             rd' = [ThreadExit(id) EXCEPT ![h].pc = IF @ = "recv_header"
                                                    THEN "recv_header_unlocked"
                                                    ELSE "recv_payload_unlocked"]
    /\ UNCHANGED <<regVars, netVars, dbVars, rateVars, acc, udpVars, chatVars, relayVars, clVars,
                   histVars>>

\* recv_all returns with the payload in a thread whose mutex was released
\* under it; its lock_guard goes out of scope and unlocks.
client_read_loop_recv_unlocked_done(id) ==
    /\ id \in DOMAIN rd
    /\ rd[id].pc = "recv_payload_unlocked"
    /\ Head(c2s[g_clients[id].tls_socket]).size # "stalled"
    /\ rd' = [rd EXCEPT ![id].pc = "idle"]
    /\ UNCHANGED <<regVars, netVars, dbVars, rateVars, acc, udpVars, chatVars, relayVars, clVars,
                   histVars>>

\* The steps in which thread id unlocks g_clients_mutex.
Unlocks(id) ==
    \/ client_read_loop_recv_payload_done(id)
    \/ client_read_loop_recv_failed_unlock(id)
    \/ client_read_loop_recv_failed_return(id)
    \/ client_read_loop_recv_unlocked_done(id)

InitMutex == InitServer /\ NoFailures /\ g_update = FALSE /\ tap = {}

NextMutex ==
    \/ \E c \in 1..MutexConns : tcp_accept(c)
    \/ PeerLogin
    \/ auth_login_verify
    \/ create_session
    \/ MutexFree /\ auth_setup
    \/ MutexFree /\ auth_send_resp
    \/ \E c \in 1..MutexConns : PeerWrites(c, make_voice_join_msg)
    \/ \E c \in 1..MutexConns : PeerWritesHeader(c, "CHAT_SYNC")
    \/ \E c \in 1..MutexConns : PeerWritesPayload(c)
    \/ \E c \in 1..MutexConns : PeerCloses(c)
    \/ \E id \in Conns : client_read_loop_recv_payload_wait(id)
    \/ \E id \in Conns : client_read_loop_recv_payload_done(id)
    \/ \E id \in Conns : client_read_loop_recv_header(id)
    \/ \E id \in Conns : client_read_loop_recv_failed_unlock(id)
    \/ \E id \in Conns : client_read_loop_recv_failed_remove(id)
    \/ \E id \in Conns : client_read_loop_recv_failed_return(id)
    \/ \E id \in Conns : client_read_loop_recv_unlocked_done(id)
    \/ \E id \in Conns : MutexFree /\ FrameWaiting(id) /\ recv_client_message(id)
    \/ \E id \in Conns : MutexFree /\ client_read_loop_chat_sync_entry(id)

SpecMutex == InitMutex /\ [][NextMutex]_vars

(***************************************************************************)
(* Claims checked under SpecMutex.                                         *)
(***************************************************************************)
\* C32: a thread that unlocks g_clients_mutex holds it: every unlock is the
\* one unlock of an acquisition by the same thread.
C32_UnlockByHolder ==
    [][\A id \in Conns : Unlocks(id) => id \in MutexHolders]_vars

(***************************************************************************)
(* SpecAccept: tcp_accept_loop runs the TLS handshake and the auth loop of *)
(* an accepted connection itself, with blocking reads, before it returns   *)
(* to accept().  The peer of connection 1 may write its request, close, or *)
(* stay silent; the peers in Punctual write a valid login as soon as their *)
(* connection is accepted.                                                 *)
(***************************************************************************)
AcceptConns == 2
Punctual == 2..AcceptConns

\* The peer of c writes AUTH_LOGIN_REQ with alice's password.
PeerPresents(c) ==
    /\ conn_state[c] = "auth_loop"
    /\ PeerWrites(c, make_auth_login_req("alice", "passw0rd"))

\* tcp_accept_loop from accept() to the spawn of the read thread.
tcp_accept_loop ==
    \/ \E c \in 1..AcceptConns : tcp_accept(c)
    \/ recv_auth_request
    \/ auth_login_verify
    \/ create_session
    \/ auth_setup
    \/ auth_send_resp

Authenticated(c) == \E id \in Present : g_clients[id].tls_socket = c

InitAccept == InitServer /\ NoFailures /\ g_update = FALSE /\ tap = {}

NextAccept ==
    \/ tcp_accept_loop
    \/ acc.conn \notin Punctual /\ auth_loop_connection_lost
    \/ \E c \in 1..AcceptConns : PeerPresents(c)
    \/ \E c \in 1..AcceptConns, m \in {make_voice_join_msg, make_voice_leave_msg} :
          conn_state[c] = "client" /\ PeerWrites(c, m)
    \/ \E id \in Conns : recv_client_message(id)

SpecAccept ==
    /\ InitAccept
    /\ [][NextAccept]_vars
    /\ WF_vars(tcp_accept_loop)
    /\ \A c \in Punctual : WF_vars(PeerPresents(c))

(***************************************************************************)
(* Claims checked under SpecAccept.                                        *)
(***************************************************************************)
\* C33: every peer that presents valid credentials is eventually
\* authenticated, whatever the peer of another connection does.
C33_LoginLiveness == \A c \in Punctual : <>Authenticated(c)

(***************************************************************************)
(* SpecLate: the steps of SpecChat with the modelled client on the second  *)
(* connection and peers that come and go before and after it: the history  *)
(* may hold records when the client logs in.                               *)
(***************************************************************************)
LateConns == 3

InitLate == InitServer /\ NoFailures /\ g_update = FALSE /\ tap = {2}

\* A peer sends LEAVE.
PeerLeaves(id) ==
    /\ IsPeer(id)
    /\ c2s[g_clients[id].tls_socket] = <<>>
    /\ client_read_loop_LEAVE(id)
    /\ UNCHANGED c2s

\* A peer types a line.
PeerTypes(id) == IsPeer(id) /\ PeerChat(id)

NextLate ==
    \/ \E c \in 1..LateConns : tcp_accept(c)
    \/ \E c \in tap : do_login(c, "alice", "passw0rd")
    \/ recv_auth_request
    \/ PeerLogin
    \/ auth_login_verify
    \/ create_session
    \/ auth_setup
    \/ auth_send_resp
    \/ \E c \in tap : do_login_response(c)
    \/ \E c \in tap : tcp_receive_thread(c)
    \/ \E id \in Conns : recv_CHAT_SYNC(id)
    \/ \E id \in Conns : client_read_loop_chat_sync_entry(id)
    \/ \E id \in Conns : PeerTypes(id)
    \/ \E id \in Conns : client_read_loop_append_chat_to_file(id)
    \/ \E id \in Conns : client_read_loop_chat_broadcast(id)
    \/ \E id \in Conns : PeerLeaves(id)

SpecLate == InitLate /\ [][NextLate]_vars

\* A TEXT_CHAT of the CHAT_SYNC replay: the server sends it with sender id 0.
IsReplay(m) == m.type = "TEXT_CHAT" /\ m.id = 0

(***************************************************************************)
(* Claims checked under SpecLate.                                          *)
(***************************************************************************)
\* C34: once the client has read a record of the reply to its CHAT_SYNC, it
\* holds that record.
C34_SyncReplyHeld ==
    [][\A c \in tap :
          (tcp_receive_thread(c) /\ IsReplay(Head(wire[c])))
              => Head(wire[c]).seq \in {cl'[c].chat_messages[k] :
                                           k \in 1..Len(cl'[c].chat_messages)}]_vars

(***************************************************************************)
(* Claims checked under SpecLogin: the saved session.                      *)
(***************************************************************************)
\* C35: when the server has answered the token login of a connection with
\* OK (the presented token deleted, a new one minted and sent), the
\* connection is up and do_token_login has returned, the client's saved
\* session holds the new token.
C35_RotatedTokenSaved ==
    \A c \in Conns :
        (/\ last_auth.conn = c
         /\ last_auth.kind = "token"
         /\ last_auth.status = "OK"
         /\ conn_state[c] = "client"
         /\ cl[c].pc # "token_wait")
            => cl[c].saved_session = last_auth.token

(***************************************************************************)
(* SpecWatch: the client of connection 1 watches the screens of two peers  *)
(* and switches between them; the peers share and send a keyframe followed *)
(* by delta frames; the relay thread forwards them.                        *)
(***************************************************************************)
WatchConns == 3
WatchFrames == 2

make_screen_subscribe_msg(target_id) == [Req("SCREEN_SUBSCRIBE") EXCEPT !.id = target_id]
make_screen_unsubscribe_msg(target_id) == [Req("SCREEN_UNSUBSCRIBE") EXCEPT !.id = target_id]

\* The "Watch" button next to a user known to be sharing: unsubscribe from
\* the stream watched so far, if any, and subscribe to this one.
watch(c, uid) ==
    LET unsub == IF cl[c].watching_user_id # 0
                 THEN send_tcp(cl[c], <<>>, make_screen_unsubscribe_msg(cl[c].watching_user_id))
                 ELSE <<>>
    IN  /\ cl[c].pc = "running"
        /\ cl[c].connected
        /\ uid # cl[c].watching_user_id
        /\ Sharing(uid)
        /\ \A k \in 1..Len(wire[c]) : wire[c][k] # make_screen_start_broadcast(uid)
        /\ cl' = [cl EXCEPT ![c].watching_user_id = uid]
        /\ c2s' = [c2s EXCEPT ![c] = @ \o send_tcp(cl[c], unsub, make_screen_subscribe_msg(uid))]
        /\ UNCHANGED <<regVars, netVars, dbVars, rateVars, acc, rd, udpVars, chatVars, relayVars,
                       histVars>>

\* The read thread of id reads a SCREEN_SUBSCRIBE or SCREEN_UNSUBSCRIBE.
recv_SCREEN_SUBSCRIBE(id) ==
    LET c == g_clients[id].tls_socket
        m == Head(c2s[c])
    IN  /\ id \in Present
        /\ c2s[c] # <<>>
        /\ m.type \in {"SCREEN_SUBSCRIBE", "SCREEN_UNSUBSCRIBE"}
        /\ c2s' = [c2s EXCEPT ![c] = Tail(@)]
        /\ IF m.type = "SCREEN_SUBSCRIBE"
           THEN client_read_loop_SCREEN_SUBSCRIBE(id, m.id)
           ELSE client_read_loop_SCREEN_UNSUBSCRIBE(id, m.id) /\ UNCHANGED relayVars

\* tcp_receive_thread, SCREEN_FRAME: a frame of the sharer being watched is
\* copied into the receive slot, whatever the slot holds.
tcp_receive_thread_SCREEN_FRAME(c) ==
    LET m == Head(wire[c])
    IN  /\ cl[c].pc = "running"
        /\ cl[c].connected
        /\ wire[c] # <<>>
        /\ m.type = "SCREEN_FRAME"
        /\ wire' = [wire EXCEPT ![c] = Tail(@)]
        /\ cl' = IF m.id = cl[c].watching_user_id
                 THEN [cl EXCEPT ![c].screen_frame_buf = m, ![c].screen_frame_new = TRUE]
                 ELSE cl
        /\ UNCHANGED <<regVars, conn_state, tap, dbVars, rateVars, acc, rd, udpVars, chatVars,
                       relayVars, c2s, histVars>>

\* H264Decoder::decode up to the input sample: delta frames are discarded
\* until the first keyframe of the decoder's life.
decode(decoder, frame) ==
    IF ~decoder.got_keyframe /\ ~frame.key THEN decoder
    ELSE [decoder EXCEPT !.got_keyframe = TRUE, !.input = Append(@, frame)]

\* screen_decode_thread_func: take the frame out of the slot and decode it.
screen_decode_thread_func(c) ==
    /\ cl[c].pc = "running"
    /\ cl[c].connected
    /\ cl[c].screen_frame_new
    /\ cl[c].screen_frame_buf # NoFrame
    /\ cl' = [cl EXCEPT ![c].screen_frame_buf = NoFrame, ![c].screen_frame_new = FALSE,
                        ![c].decoder = decode(@, cl[c].screen_frame_buf)]
    /\ UNCHANGED <<regVars, netVars, dbVars, rateVars, acc, rd, udpVars, chatVars, relayVars,
                   c2s, histVars>>

\* A sharing peer sends its next frame: a keyframe first, delta frames then.
WatchFrame(id) ==
    /\ IsPeer(id)
    /\ Sharing(id)
    /\ Len(produced[id]) < WatchFrames
    /\ client_read_loop_SCREEN_FRAME(id, produced[id] = <<>>)
    /\ UNCHANGED c2s

InitWatch == InitServer /\ NoFailures /\ g_update = FALSE /\ tap = {1}

\* The peers arrive and start sharing one after the other, each when the
\* client has read what the server sent it, and send a frame when the relay
\* has forwarded the one before; the user clicks when the server has read
\* the client's last request, and moves on to sharers with larger ids.
Calm == \A c \in tap : cl[c].pc = "running" /\ Settled(c)

NextWatch ==
    \/ \E c \in 1..WatchConns : (c \in tap \/ Calm) /\ tcp_accept(c)
    \/ \E c \in tap : do_login(c, "alice", "passw0rd")
    \/ recv_auth_request
    \/ PeerLogin
    \/ auth_login_verify
    \/ create_session
    \/ auth_setup
    \/ auth_send_resp
    \/ \E c \in tap : do_login_response(c)
    \/ \E c \in tap : wire[c] # <<>> /\ Head(wire[c]).type # "SCREEN_FRAME" /\ tcp_receive_thread(c)
    \/ \E c \in tap : tcp_receive_thread_SCREEN_FRAME(c)
    \/ \E c \in tap : screen_decode_thread_func(c)
    \/ \E c \in tap, uid \in Conns :
          c2s[c] = <<>> /\ uid > cl[c].watching_user_id /\ watch(c, uid)
    \/ \E id \in Conns : recv_CHAT_SYNC(id)
    \/ \E id \in Conns : client_read_loop_chat_sync_entry(id)
    \/ \E id \in Conns : recv_SCREEN_SUBSCRIBE(id)
    \/ \E id \in Conns : Calm /\ IsPeer(id) /\ PeerScreenStart(id)
    \/ \E id \in Conns : RelayQuiet /\ WatchFrame(id)
    \/ \E id \in Conns : client_read_loop_enqueue_relay(id)
    \/ screen_relay_loop_drain
    \/ screen_relay_loop_video

SpecWatch == InitWatch /\ [][NextWatch]_vars

(***************************************************************************)
(* Claims checked under SpecWatch.                                         *)
(***************************************************************************)
\* C36: a keyframe in the receive slot that the decode thread has not taken
\* stays there until the decode thread takes it.
C36_IdrNotOverwritten ==
    [][\A c \in tap :
          (cl[c].screen_frame_new /\ cl[c].screen_frame_buf.key)
              => \/ cl'[c].screen_frame_buf = cl[c].screen_frame_buf
                 \/ screen_decode_thread_func(c)]_vars

\* C37: every delta frame that went into the codec follows a keyframe of the
\* same sharer, with frames of that sharer only in between.
C37_DeltaAfterKeyframe ==
    \A c \in tap :
        LET input == cl[c].decoder.input
        IN  \A k \in 1..Len(input) :
                ~input[k].key
                    => \E j \in 1..(k - 1) :
                          /\ input[j].key
                          /\ \A i \in j..k : input[i].id = input[k].id

(***************************************************************************)
(* Claims checked under SpecSubscribe: the keyframe cache.                 *)
(***************************************************************************)
\* C38: a client that has a cached keyframe is sharing its screen.
C38_CachedKeyframeOnlyWhileSharing ==
    \A id \in Present :
        g_clients[id].cached_keyframe # NoKeyframe => g_clients[id].screen_sharing

(***************************************************************************)
(* SpecLocks: the mutex operations of the server's threads.  Each thread   *)
(* runs the lock and unlock operations of one pass of its loop, in the     *)
(* order of the source; code is what it has left to run and held the       *)
(* mutexes it owns, oldest first.  acc is the acceptor, relay the relay    *)
(* thread, udp_rx the UDP loop and rd[id] the read thread of client id.    *)
(* A pass is run one stretch at a time, a stretch ending where the thread  *)
(* owns nothing: what it runs after that point is of no concern to the     *)
(* other threads.                                                          *)
(***************************************************************************)
LockConns == 2        \* read threads in SpecLocks
MaxSyncEntries == 2   \* entries a CHAT_SYNC loop sends, items of a relay batch

Lock(m) == [op |-> "lock", m |-> m]
Unlock(m) == [op |-> "unlock", m |-> m]

\* { std::lock_guard<std::mutex> lock(m); ... }
Scope(m) == <<Lock(m), Unlock(m)>>

RECURSIVE Repeat(_, _)
Repeat(s, n) == IF n = 0 THEN <<>> ELSE s \o Repeat(s, n - 1)

\* Variant of client_read_loop_locks: TEXT_CHAT keeps the g_clients_mutex of
\* its sender lookup while it takes g_chat_mutex.
client_read_loop_locks_nested(type, n) ==
    LET clients == Scope("g_clients_mutex")
    IN  IF type = "TEXT_CHAT"
        THEN <<Lock("g_clients_mutex"), Lock("g_chat_mutex"),
               Unlock("g_chat_mutex"), Unlock("g_clients_mutex")>> \o clients
        ELSE IF type = "CHAT_SYNC"
        THEN <<Lock("g_chat_mutex")>> \o Repeat(clients, n) \o <<Unlock("g_chat_mutex")>>
        ELSE clients

\* The mutex operations of one part of a pass of client_read_loop
\* (main.cpp:600-844).  "recv" is the head of the pass: the socket lookup
\* (604), the header (625) and the payload (641) are read in a scope of
\* g_clients_mutex each.  "recv_failed" is the head whose header read fails:
\* lock.~lock_guard(), remove_client(id), and the guard's destructor once
\* more at the return.  The other types are the handlers; n is the number of
\* entries a CHAT_SYNC sends, and for SCREEN_FRAME and AUTH_DELETE_ACCT_REQ
\* whether the frame is a keyframe and the deletion succeeded (n > 0).
client_read_loop_locks(type, n) ==
    LET clients == Scope("g_clients_mutex")
        relayq == Scope("g_relay_mutex")
        remove_client_locks == clients
    IN  CASE type = "recv" -> clients \o clients \o clients
          [] type = "recv_failed" ->
                 clients \o clients \o remove_client_locks \o <<Unlock("g_clients_mutex")>>
          [] type = "LEAVE" -> remove_client_locks
          [] type = "TEXT_CHAT" -> clients \o Scope("g_chat_mutex") \o clients
          [] type = "CHAT_SYNC" ->
                 <<Lock("g_chat_mutex")>> \o Repeat(clients, n) \o <<Unlock("g_chat_mutex")>>
          [] type = "VOICE_JOIN" -> clients
          [] type = "SCREEN_FRAME" -> (IF n > 0 THEN clients ELSE <<>>) \o relayq
          [] type = "SCREEN_AUDIO" -> relayq
          [] type = "AUTH_CHANGE_PASS_REQ" -> clients \o clients
          [] type = "AUTH_DELETE_ACCT_REQ" ->
                 clients \o clients \o (IF n > 0 THEN remove_client_locks ELSE <<>>)
          [] type = "AUTH_LOGOUT" -> clients \o remove_client_locks

\* The parts a read thread runs, with the values of n that make a difference.
LockPasses ==
    ({"recv", "recv_failed", "LEAVE", "TEXT_CHAT", "VOICE_JOIN", "SCREEN_AUDIO",
      "AUTH_CHANGE_PASS_REQ", "AUTH_LOGOUT"} \X {0})
    \cup ({"SCREEN_FRAME", "AUTH_DELETE_ACCT_REQ"} \X {0, 1})
    \cup ({"CHAT_SYNC"} \X (0..MaxSyncEntries))

\* One connection in tcp_accept_loop (main.cpp:299-522): a login that is
\* rate limited (401), one whose credentials fail (424), and one that
\* succeeds: setup_authenticated_client (250), the response (442) and the
\* thread list (518).
tcp_accept_loop_locks(outcome) ==
    CASE outcome = "ERR_RATE_LIMITED" -> Scope("g_rate_limit_mutex")
      [] outcome = "ERR_INVALID_CREDS" ->
             Scope("g_rate_limit_mutex") \o Scope("g_rate_limit_mutex")
      [] outcome = "OK" ->
             Scope("g_rate_limit_mutex") \o Scope("g_clients_mutex")
             \o Scope("g_clients_mutex") \o Scope("g_client_threads_mutex")

\* One pass of screen_relay_loop (main.cpp:532-597): the queue is drained
\* under g_relay_mutex, then send_to_subscribers runs once for each of the n
\* items it sends.
screen_relay_loop_locks(n) == Scope("g_relay_mutex") \o Repeat(Scope("g_clients_mutex"), n)

\* One datagram in udp_relay_loop (main.cpp:871-892).
udp_relay_loop_locks == Scope("g_clients_mutex")

\* The stretches of a pass: it is cut after every unlock that leaves the
\* thread without a mutex.
RECURSIVE Stretches(_, _, _)
Stretches(code, stretch, depth) ==
    IF code = <<>>
    THEN IF stretch = <<>> THEN <<>> ELSE <<stretch>>
    ELSE LET d == IF Head(code).op = "lock" THEN depth + 1
                  ELSE IF depth > 0 THEN depth - 1 ELSE 0
         IN  IF d = 0
             THEN <<Append(stretch, Head(code))>> \o Stretches(Tail(code), <<>>, 0)
             ELSE Stretches(Tail(code), Append(stretch, Head(code)), d)

NoLocks == [code |-> <<>>, held |-> <<>>]

\* The threads, numbered: acceptor, relay thread, UDP loop, read threads.
Threads == <<acc, relay, udp_rx>> \o [id \in 1..LockConns |-> rd[id]]

Holds(t, m) == \E k \in 1..Len(Threads[t].held) : Threads[t].held[k] = m
Owned(m) == \E t \in DOMAIN Threads : Holds(t, m)

\* Thread t is at a lock of a mutex that is owned.
Blocked(t) ==
    /\ Threads[t].code # <<>>
    /\ Head(Threads[t].code).op = "lock"
    /\ Owned(Head(Threads[t].code).m)

Released(th, m) == [th EXCEPT !.held = SelectSeq(@, LAMBDA x : x # m)]

Install(New) ==
    /\ acc' = New[1]
    /\ relay' = New[2]
    /\ udp_rx' = New[3]
    /\ rd' = [id \in 1..LockConns |-> New[3 + id]]
    /\ UNCHANGED <<regVars, netVars, dbVars, rateVars, udp_tx, chatVars, g_relay_queue,
                   produced, sub_at, clVars, histVars>>

\* std::mutex::lock: thread t takes the mutex once nobody owns it.
mutex_lock(t) ==
    /\ Threads[t].code # <<>>
    /\ Head(Threads[t].code).op = "lock"
    /\ ~Owned(Head(Threads[t].code).m)
    /\ Install([Threads EXCEPT ![t] = [code |-> Tail(@.code),
                                       held |-> Append(@.held, Head(@.code).m)]])

\* std::mutex::unlock by the owner.
mutex_unlock(t) ==
    /\ Threads[t].code # <<>>
    /\ Head(Threads[t].code).op = "unlock"
    /\ Holds(t, Head(Threads[t].code).m)
    /\ Install([Threads EXCEPT ![t] = Released([@ EXCEPT !.code = Tail(@)],
                                               Head(Threads[t].code).m)])

\* std::mutex::unlock by a thread that does not own the mutex: undefined.
\* Either nothing happens or the thread that owns it loses it.
mutex_unlock_unowned(t) ==
    /\ Threads[t].code # <<>>
    /\ Head(Threads[t].code).op = "unlock"
    /\ ~Holds(t, Head(Threads[t].code).m)
    /\ \E victim \in {0} \cup {u \in DOMAIN Threads : Holds(u, Head(Threads[t].code).m)} :
           Install([u \in DOMAIN Threads |->
                       IF u = t THEN [Threads[u] EXCEPT !.code = Tail(@)]
                       ELSE IF u = victim THEN Released(Threads[u], Head(Threads[t].code).m)
                       ELSE Threads[u]])

\* A thread at the head of its loop starts a pass.
\* Thread t, which has nothing left to run, starts a stretch of a pass.
Pass(t, code) ==
    /\ Threads[t].code = <<>>
    /\ \E k \in 1..Len(Stretches(code, <<>>, 0)) :
           Install([Threads EXCEPT ![t].code = Stretches(code, <<>>, 0)[k]])

client_read_loop_pass(id, type, n) == Pass(3 + id, client_read_loop_locks(type, n))

tcp_accept_loop_pass(outcome) == Pass(1, tcp_accept_loop_locks(outcome))

screen_relay_loop_pass(n) == Pass(2, screen_relay_loop_locks(n))

udp_relay_loop_pass == Pass(3, udp_relay_loop_locks)

InitLocks ==
    /\ users = InitUsers
    /\ g_clients = <<>> /\ g_next_id = 1 /\ g_running = TRUE /\ g_update = FALSE
    /\ conn_state = [c \in Conns |-> "none"]
    /\ wire = [c \in Conns |-> <<>>]
    /\ tap = {}
    /\ sessions = {} /\ next_session_id = 1 /\ rng = 0
    /\ now = RATE_LIMIT_WINDOW_SECS
    /\ NoFailures
    /\ acc = NoLocks
    /\ relay = NoLocks
    /\ udp_rx = NoLocks
    /\ rd = [id \in 1..LockConns |-> NoLocks]
    /\ udp_tx = <<>>
    /\ g_chat_history = <<>> /\ g_next_seq = 1 /\ chat_file = <<>>
    /\ g_relay_queue = <<>>
    /\ produced = [id \in Conns |-> <<>>]
    /\ sub_at = [k \in Conns \X Conns |-> 0]
    /\ cl = [c \in Conns |-> ClientIdle]
    /\ c2s = [c \in Conns |-> <<>>]
    /\ last_auth = NoAuth
    /\ tok = <<>>
    /\ pw_changed = [u \in UserIds |-> ""]

NextLocks ==
    \/ \E id \in 1..LockConns, p \in LockPasses : client_read_loop_pass(id, p[1], p[2])
    \/ \E outcome \in {"ERR_RATE_LIMITED", "ERR_INVALID_CREDS", "OK"} :
           tcp_accept_loop_pass(outcome)
    \/ \E n \in 0..MaxSyncEntries : screen_relay_loop_pass(n)
    \/ udp_relay_loop_pass
    \/ \E t \in 1..(3 + LockConns) : mutex_lock(t)
    \/ \E t \in 1..(3 + LockConns) : mutex_unlock(t)
    \/ \E t \in 1..(3 + LockConns) : mutex_unlock_unowned(t)

SpecLocks == InitLocks /\ [][NextLocks]_vars

(***************************************************************************)
(* Claims checked under SpecLocks.                                         *)
(***************************************************************************)
\* C39: a thread that owns two mutexes owns g_chat_mutex and took
\* g_clients_mutex after it, g_relay_mutex and g_rate_limit_mutex are never
\* owned together with another mutex, and no set of threads waits in a
\* circle, each at a lock of a mutex that a thread of the set owns.
C39_LockOrder ==
    /\ \A t \in DOMAIN Threads :
           \/ Len(Threads[t].held) <= 1
           \/ Threads[t].held = <<"g_chat_mutex", "g_clients_mutex">>
    /\ \A S \in SUBSET DOMAIN Threads :
           S # {} => \E t \in S :
                        ~(Blocked(t) /\ \E u \in S : Holds(u, Head(Threads[t].code).m))

\* A read thread owns g_chat_mutex and g_clients_mutex while another thread
\* waits for one of them.
C39_Witness ==
    \E t, u \in DOMAIN Threads :
        /\ Threads[t].held = <<"g_chat_mutex", "g_clients_mutex">>
        /\ Blocked(u)
        /\ Holds(t, Head(Threads[u].code).m)

(***************************************************************************)
(* SpecShare: the client of connection 1 logs in, shares its screen, stops *)
(* and shares again; the capture thread, the system audio thread and the   *)
(* send thread run while it shares.                                        *)
(***************************************************************************)
MaxShares == 2        \* times the user clicks Share Screen
MaxShareFrames == 3   \* encode calls of one screen share
MaxShareAudio == 2    \* audio frames captured

\* sys_audio_capture_thread_func: one Opus frame is encoded and queued
\* (screen_threads.cpp:243-260).
sys_audio_capture_thread_func(c) ==
    /\ cl[c].connected
    /\ cl[c].screen_sharing
    /\ "sys_audio_thread" \in cl[c].threads
    /\ cl' = [cl EXCEPT ![c].screen_send_queue = Append(@, ScreenSendItem(FALSE, TRUE))]
    /\ UNCHANGED <<regVars, netVars, dbVars, rateVars, acc, rd, udpVars, chatVars, relayVars,
                   c2s, histVars>>

\* "Stop Sharing": the flag, the joins, the queue and SCREEN_STOP.  The
\* capture thread ends its turn before it is joined.
StopSharing(c) ==
    /\ cl[c].screen_sharing
    /\ cl[c].cap.pc = "loop"
    /\ cl' = [cl EXCEPT ![c].screen_sharing = FALSE,
                        ![c].threads = @ \ {"screen_send_thread", "screen_thread",
                                            "sys_audio_thread"},
                        ![c].screen_send_queue = <<>>,
                        ![c].cap = NoCapture,
                        ![c].enc = NoEncoder]
    /\ c2s' = [c2s EXCEPT ![c] = send_tcp(cl[c], @, make_screen_stop_msg)]
    /\ UNCHANGED <<regVars, netVars, dbVars, rateVars, acc, rd, udpVars, chatVars, relayVars,
                   histVars>>

Sent(c, type) == Len(SelectSeq(c2s[c], LAMBDA m : m.type = type))

InitShare == InitServer /\ NoFailures /\ g_update = FALSE /\ tap = {1}

NextShare ==
    \/ \E c \in tap : tcp_accept(c)
    \/ \E c \in tap : do_login(c, "alice", "passw0rd")
    \/ recv_auth_request
    \/ auth_login_verify
    \/ create_session
    \/ auth_setup
    \/ auth_send_resp
    \/ \E c \in tap : do_login_response(c)
    \/ \E c \in tap : Sent(c, "SCREEN_START") < MaxShares /\ ShareScreen(c)
    \/ \E c \in tap, tex \in BOOLEAN, outcome \in EncodeOutcomes :
          /\ cl[c].enc.frame_count < MaxShareFrames
          /\ screen_capture_thread_func(c, tex, outcome)
    \/ \E c \in tap : screen_capture_push(c)
    \/ \E c \in tap :
          /\ Sent(c, "SCREEN_AUDIO")
                 + Len(SelectSeq(cl[c].screen_send_queue, LAMBDA item : item.is_audio))
                 < MaxShareAudio
          /\ sys_audio_capture_thread_func(c)
    \/ \E c \in tap : screen_send_thread_func(c)
    \/ \E c \in tap : StopSharing(c)
    \/ \E c \in tap : do_disconnect(c)

SpecShare == InitShare /\ [][NextShare]_vars

(***************************************************************************)
(* Claims checked under SpecShare.                                         *)
(***************************************************************************)
\* C40: the send queue never holds two video items, and a pass of the send
\* thread writes every item of its batch to the socket, the audio items
\* first and in queue order, then the video item.
C40_OneVideoItemQueued ==
    [][\A c \in tap :
          LET batch == cl[c].screen_send_queue
              audio == SelectSeq(batch, LAMBDA item : item.is_audio)
              video == SelectSeq(batch, LAMBDA item : ~item.is_audio)
          IN  /\ Len(SelectSeq(cl'[c].screen_send_queue, LAMBDA item : ~item.is_audio)) <= 1
              /\ screen_send_thread_func(c)
                     => c2s'[c] = c2s[c]
                                  \o [k \in 1..Len(audio) |-> make_screen_audio_msg]
                                  \o [k \in 1..Len(video) |->
                                         make_screen_frame_msg(video[k].key)]]_vars

\* The send thread has sent a batch with audio and a keyframe, and the
\* capture thread has queued its second frame behind an audio item.
C40_Witness ==
    /\ \E k \in 1..(Len(c2s[1]) - 1) :
           /\ c2s[1][k].type = "SCREEN_AUDIO"
           /\ c2s[1][k + 1].type = "SCREEN_FRAME"
           /\ c2s[1][k + 1].key
    /\ Len(cl[1].screen_send_queue) = 2
    /\ cl[1].screen_send_queue[1].is_audio
    /\ ~cl[1].screen_send_queue[2].is_audio
    /\ cl[1].cap.pc = "loop"
    /\ cl[1].enc.frame_count = 2

====
